---- MODULE Spec2Model ----
(***************************************************************************)
(* Verification model of Claude-Code-Remote's resilient delivery core:     *)
(*   - the persisted dedup store of PlatformAdapter (adapters/base.py) and *)
(*     the Discord polling loop that uses it (adapters/discord.py);        *)
(*   - the Discord transport's retry / proxy-health / circuit-breaker      *)
(*     bookkeeping (adapters/discord.py);                                  *)
(*   - streaming delivery of one inbound request through                   *)
(*     PlatformAdapter.on_message and MessageRouter.process_with_streaming *)
(*     (adapters/base.py, core/router.py, adapters/discord.py,             *)
(*     adapters/telegram.py).                                              *)
(* Each component has its own next-state relation and specification over   *)
(* the shared variable list; Spec interleaves all of them.                 *)
(***************************************************************************)
EXTENDS Integers, Sequences, FiniteSets, TLC

VARIABLES
    \* ---- dedup store and Discord polling loop
    processed_messages,   \* PlatformAdapter.processed_messages (in-memory set)
    processed_file,       \* ids held by processed_messages_<platform>.json
    last_message_id,      \* listen(): fetch cursor, 0 is None
    posted,               \* number of messages in the channel, ids 1..posted
    batch,                \* listen(): messages of the current poll still to handle
    listen_pc,            \* "poll" | "handle" | "processing" | "sleep" |
                          \* "error_wait" | "stopped"
    cur_msg,              \* message being processed (0: none)
    insertedAt,           \* history: mark number of each id's latest insertion
    markClock,            \* history: number of mark_message_processed calls
    routeCount,           \* history: process_discord_message calls per id
    evictCount,           \* history: evictions per id
    skipCount,            \* history: fetches dropped as already processed, per id
    lastEvicted,          \* history: ids dropped by the latest save
    crashes,              \* history: number of restarts
    loop_event,           \* history: how the loop's latest step ended
    in_flight,            \* history: process_discord_message calls not yet returned
    \* ---- Discord transport: retry, proxy health, circuit breaker
    proxy_config,         \* DiscordAdapter.proxy_config is set (HTTP_PROXY given)
    proxy_healthy,
    proxy_last_check,
    proxy_consecutive_failures,
    circuit_breaker_open,
    circuit_breaker_open_time,
    now,                  \* time.time(), in ticks
    req,                  \* per calling task: its _make_request_with_retry call
    lastEvent,            \* history: what the latest transport step was
    \* ---- one inbound request through on_message / process_with_streaming
    s_cfg,                \* the request: platform, handler kind, OS, targets
    s_pc,                 \* position in on_message
    force_degraded_mode,  \* PlatformAdapter.force_degraded_mode
    ctx,                  \* the StreamingContext (active: start succeeded)
    live,                 \* text shown by the live message (NoText: none)
    acc,                  \* assistant_response_parts, joined
    result,               \* the final text of the command (NoText: none yet)
    snow,                 \* time.time(), in seconds
    hist,                 \* history: counters of sends, edits and command runs
    \* ---- one batch command through _execute_shell_handler
    run_cfg,              \* the host and the handler: os_nt, ps1, timeout
    run_pc,               \* "idle" | "waiting" | "returned"
    run_elapsed,          \* ticks since the subprocess was created
    os_procs,             \* operating-system processes of the command still alive
    run_response,         \* kind of the text _execute_shell_handler returned
    run_timed_out,        \* history: the wait ended by the timeout
    \* ---- MessageRouter: route resolution, execution, target expansion
    r_cfg,                \* MessageRouter.config: routes, handlers, target_aliases
    r_pc,                 \* "idle" | "ready" | "processed" | "expanded"
    r_in,                 \* the arguments of the call
    r_handler,            \* handler_config returned by _find_handler
    r_exec,               \* the backend command _execute_handler ran, if any
    r_targets,            \* the list returned by _determine_targets
    \* ---- split_message
    sp_pc,                \* "idle" | "split" | "sent"
    sp_text,              \* the text given to split_message
    sp_parts,             \* the list it returned
    sp_sent,              \* the messages send_long_message gave send_message_plain
    \* ---- _extract_claude_response (MessageRouter and TelegramBot)
    x_pc,                 \* "idle" | "captured" | "extracted"
    x_out,                \* the command's output, as its lines
    x_router,             \* what MessageRouter._extract_claude_response gave
    x_bot,                \* what TelegramBot._extract_claude_response gave
    \* ---- DiscordAdapter.listen over several allowed channels
    ch_posted,            \* message id -> the channel it was posted in (0: not yet)
    ch_cursor,            \* listen()'s local last_message_id (0: None)
    ch_at,                \* the channel the for loop fetches next
    ch_store,             \* processed_messages
    ch_routed             \* history: message id -> times handed to on_message

dedupVars == <<processed_messages, processed_file, last_message_id, posted, batch,
               listen_pc, cur_msg, insertedAt, markClock, routeCount, evictCount,
               skipCount, lastEvicted, crashes, loop_event, in_flight>>

circuitVars == <<proxy_config, proxy_healthy, proxy_last_check,
                 proxy_consecutive_failures, circuit_breaker_open,
                 circuit_breaker_open_time, now, req, lastEvent>>

streamVars == <<s_cfg, s_pc, force_degraded_mode, ctx, live, acc, result, snow,
                hist>>

runVars == <<run_cfg, run_pc, run_elapsed, os_procs, run_response, run_timed_out>>

routeVars == <<r_cfg, r_pc, r_in, r_handler, r_exec, r_targets>>

splitVars == <<sp_pc, sp_text, sp_parts, sp_sent>>

extractVars == <<x_pc, x_out, x_router, x_bot>>

chanVars == <<ch_posted, ch_cursor, ch_at, ch_store, ch_routed>>

vars == <<dedupVars, circuitVars, streamVars, runVars, routeVars, splitVars,
          extractVars, chanVars>>

\* What the actions of one component leave alone.
nonDedupVars == <<circuitVars, streamVars, runVars, routeVars, splitVars,
    extractVars, chanVars>>
nonCircuitVars == <<dedupVars, streamVars, runVars, routeVars, splitVars,
    extractVars, chanVars>>
nonStreamVars == <<dedupVars, circuitVars, runVars, routeVars, splitVars,
    extractVars, chanVars>>
nonRunVars == <<dedupVars, circuitVars, streamVars, routeVars, splitVars,
    extractVars, chanVars>>
nonRouteVars == <<dedupVars, circuitVars, streamVars, runVars, splitVars,
    extractVars, chanVars>>
nonSplitVars == <<dedupVars, circuitVars, streamVars, runVars, routeVars,
    extractVars, chanVars>>
nonExtractVars == <<dedupVars, circuitVars, streamVars, runVars, routeVars,
    splitVars, chanVars>>
nonChanVars == <<dedupVars, circuitVars, streamVars, runVars, routeVars,
    splitVars, extractVars>>

(***************************************************************************)
(* Bounds of the model and program constants (scaled where noted).         *)
(***************************************************************************)
\* Number of message ids the channel ever holds.
NumMsgs == 5
\* Number of crash/restart events explored.
MaxCrashes == 2
\* base.py:94 keeps the last 1000 ids; scaled to 3 so that eviction is reached.
MaxProcessed == 3
\* discord.py:366 fetches at most 50 messages per poll; scaled to 2.
FetchLimit == 2

MsgIds == 1..NumMsgs

\* main.py:167 runs one listen task per adapter (Telegram, Discord); each may call
\* the Discord transport (its own polling and sends, or a cross-platform target
\* through send_to_target), so two calls can be in flight on one adapter.
NumCallers == 2
\* discord.py:73 max_retries = 3; scaled to 1 (two attempts per operation).
max_retries == 1
\* discord.py:82 max_proxy_failures = 5; scaled to 2.
max_proxy_failures == 2
\* discord.py:88 severe_failure_threshold = 10; scaled to 4.
severe_failure_threshold == 4
\* discord.py:80 proxy_check_interval = 300 s; one tick is 150 s.
proxy_check_interval == 2
\* discord.py:87 circuit_breaker_timeout = 600 s; one tick is 150 s.
circuit_breaker_timeout == 4
\* Ticks of time explored after start-up.
MaxTicks == 6
\* Ticks during which the network may fail requests, in the runs where it
\* recovers for good.
OutageTicks == 2

\* Texts are measured in units of 5 characters.  Longest accumulated output.
MaxText == 4
\* base.py:36 len(new_content.strip()) > 10: 10 characters are 2 units.
MinContentUnits == 2
\* base.py:29 update_interval = 3.0 seconds.
update_interval == 3
\* Seconds explored while one request is handled.
MaxSeconds == 6
\* Lines of output read from one command.
MaxLines == 3
\* Longest inbound content explored, in characters.
MaxContent == 3
\* Longest configured target list explored.
MaxTargets == 2
\* discord.py:42 max_message_length = 2000 characters (telegram.py: 4096); one
\* unit here is 400 characters.
max_message_length == 5
\* Longest text given to split_message, in characters.
MaxSplitLen == 7
\* Allowed Discord channels polled by one listen loop (discord.py:223
\* allowed_channel_ids).
NumChannels == 3
\* Messages posted over all the allowed channels: no more than one fetch
\* returns, so that none is lost to the fetch limit.
MaxChanMsgs == 2
\* Most lines in one command output given to _extract_claude_response.
MaxOutputLines == 3
\* router.py:532 summary[:200]: the longest raw-output summary, in characters.
summary_limit == 200
\* Longest handler timeout explored, in ticks (router.py:206 handler_config
\* "timeout", 60 seconds by default).
MaxTimeout == 4
\* router.py:414 "No response received from Claude": 31 characters, 7 units
\* (rounded up); distinct from every accumulated text of its request, which is
\* empty when the sentinel is used.
NoResponseText == 7
\* router.py:54 "Processing error: argument of type 'NoneType' is not iterable":
\* 61 characters, 13 units (rounded up).
ProcessingErrorText == 13

Callers == 1..NumCallers
\* time.time() at start-up: far more than proxy_check_interval after the initial
\* proxy_last_check = 0.
StartTime == circuit_breaker_timeout

SetMax(S) == CHOOSE x \in S : \A y \in S : y <= x
SetMin(S) == CHOOSE x \in S : \A y \in S : x <= y

RECURSIVE AscSeq(_)
\* The elements of a finite set of integers in ascending order.
AscSeq(S) == IF S = {} THEN <<>> ELSE <<SetMin(S)>> \o AscSeq(S \ {SetMin(S)})

RECURSIVE Newest(_, _)
\* The k largest elements of S.
Newest(S, k) == IF k = 0 \/ S = {} THEN {}
                ELSE {SetMax(S)} \cup Newest(S \ {SetMax(S)}, k - 1)

RECURSIVE Oldest(_, _)
\* The k smallest elements of S.
Oldest(S, k) == IF k = 0 \/ S = {} THEN {}
                ELSE {SetMin(S)} \cup Oldest(S \ {SetMin(S)}, k - 1)

(***************************************************************************)
(* PlatformAdapter: the dedup store.                                       *)
(***************************************************************************)
\* A variant of is_message_processed that finds no id in the store.
is_message_processed_never(m) == FALSE

\* base.py is_message_processed
is_message_processed(m) == m \in processed_messages

\* A variant of the trimming that keeps every id.
TrimChoices_nocap(S) == {S}

\* base.py _save_processed_messages, lines 94-95: set(list(s)[-1000:]).  list(s)
\* enumerates a set of strings in hash order, which depends on the interpreter's
\* per-process hash seed and on the table layout, so the ids that survive are any
\* MaxProcessed of them.
TrimChoices(S) ==
    IF Cardinality(S) > MaxProcessed
    THEN {K \in SUBSET S : Cardinality(K) = MaxProcessed}
    ELSE {S}

\* base.py _load_processed_messages: the set of the ids in the file.
LoadProcessed == processed_file

\* base.py mark_message_processed: add, then _save_processed_messages (trim and
\* rewrite the file).  File writes are taken to succeed.
mark_message_processed(m) ==
    \E K \in TrimChoices(processed_messages \cup {m}) :
        /\ processed_messages' = K
        /\ processed_file' = K
        /\ markClock' = markClock + 1
        /\ insertedAt' = [insertedAt EXCEPT ![m] = markClock + 1]
        /\ lastEvicted' = (processed_messages \cup {m}) \ K
        /\ evictCount' = [x \in MsgIds |->
                            IF x \in (processed_messages \cup {m}) \ K
                            THEN evictCount[x] + 1 ELSE evictCount[x]]

(***************************************************************************)
(* DiscordAdapter.listen and the channel it polls.                         *)
(***************************************************************************)
\* A user posts the next message in the channel (ids grow with time).
PostMessage ==
    /\ posted < NumMsgs
    /\ posted' = posted + 1
    /\ UNCHANGED <<processed_messages, processed_file, last_message_id, batch,
                   listen_pc, cur_msg, insertedAt, markClock, routeCount,
                   evictCount, skipCount, lastEvicted, crashes, loop_event>>
    /\ UNCHANGED in_flight
    /\ UNCHANGED nonDedupVars

\* discord.py get_channel_messages(channel, limit, after): the channel's messages
\* after the cursor (the FetchLimit closest to it), or the latest FetchLimit when
\* there is no cursor; listen handles them oldest first (reversed(messages)).
get_channel_messages(after) ==
    IF after = 0 THEN Newest(1..posted, FetchLimit)
    ELSE Oldest({m \in 1..posted : m > after}, FetchLimit)

\* listen(), line 224: one fetch; with nothing fetched the loop goes to its
\* sleep (line 247).
Poll ==
    /\ listen_pc = "poll"
    /\ batch' = AscSeq(get_channel_messages(last_message_id))
    /\ listen_pc' = IF get_channel_messages(last_message_id) = {} THEN "sleep" ELSE "handle"
    /\ loop_event' = "ok"
    /\ UNCHANGED <<processed_messages, processed_file, last_message_id, posted,
                   cur_msg, insertedAt, markClock, routeCount, evictCount,
                   skipCount, lastEvicted, crashes>>
    /\ UNCHANGED in_flight
    /\ UNCHANGED nonDedupVars

\* listen(), lines 233-236: the message is already in the store.
SkipProcessed ==
    /\ listen_pc = "handle"
    /\ batch # <<>>
    /\ is_message_processed(Head(batch))
    /\ last_message_id' = Head(batch)
    /\ batch' = Tail(batch)
    /\ listen_pc' = IF Tail(batch) = <<>> THEN "sleep" ELSE "handle"
    /\ loop_event' = "ok"
    /\ skipCount' = [skipCount EXCEPT ![Head(batch)] = @ + 1]
    /\ UNCHANGED <<processed_messages, processed_file, posted, cur_msg, insertedAt,
                   markClock, routeCount, evictCount, lastEvicted, crashes>>
    /\ UNCHANGED in_flight
    /\ UNCHANGED nonDedupVars

\* A variant of the loop that starts process_discord_message without awaiting it.
StartProcessing_detached ==
    /\ listen_pc = "handle"
    /\ batch # <<>>
    /\ ~is_message_processed(Head(batch))
    /\ mark_message_processed(Head(batch))
    /\ cur_msg' = Head(batch)
    /\ routeCount' = [routeCount EXCEPT ![Head(batch)] = @ + 1]
    /\ batch' = Tail(batch)
    /\ listen_pc' = IF Tail(batch) = <<>> THEN "sleep" ELSE "handle"
    /\ loop_event' = "ok"
    /\ UNCHANGED <<last_message_id, posted, skipCount, crashes>>
    /\ in_flight' = in_flight + 1
    /\ UNCHANGED nonDedupVars

\* listen(), lines 239-241: mark, save, then start process_discord_message.
StartProcessing ==
    /\ listen_pc = "handle"
    /\ batch # <<>>
    /\ ~is_message_processed(Head(batch))
    /\ mark_message_processed(Head(batch))
    /\ cur_msg' = Head(batch)
    /\ routeCount' = [routeCount EXCEPT ![Head(batch)] = @ + 1]
    /\ batch' = Tail(batch)
    /\ listen_pc' = "processing"
    /\ loop_event' = "ok"
    /\ UNCHANGED <<last_message_id, posted, skipCount, crashes>>
    /\ in_flight' = in_flight + 1
    /\ UNCHANGED nonDedupVars

\* listen(), line 242: process_discord_message returned.
FinishProcessing ==
    /\ listen_pc = "processing"
    /\ last_message_id' = cur_msg
    /\ cur_msg' = 0
    /\ listen_pc' = IF batch = <<>> THEN "sleep" ELSE "handle"
    /\ loop_event' = "ok"
    /\ UNCHANGED <<processed_messages, processed_file, posted, batch, insertedAt,
                   markClock, routeCount, evictCount, skipCount, lastEvicted, crashes>>
    /\ in_flight' = in_flight - 1
    /\ UNCHANGED nonDedupVars

\* discord.py get_channel_messages, lines 392-394: an error raised by the fetch
\* is caught there and an empty list returned; listen goes to its sleep.
PollFails ==
    /\ listen_pc = "poll"
    /\ batch' = <<>>
    /\ listen_pc' = "sleep"
    /\ loop_event' = "fetch_failed"
    /\ UNCHANGED <<processed_messages, processed_file, last_message_id, posted,
                   cur_msg, insertedAt, markClock, routeCount, evictCount,
                   skipCount, lastEvicted, crashes>>
    /\ UNCHANGED in_flight
    /\ UNCHANGED nonDedupVars

\* discord.py process_discord_message, lines 474-475: an error raised while the
\* message is processed is caught and logged; the call returns to listen, which
\* moves the cursor (line 242) and goes on with the batch.
ProcessingFails ==
    /\ listen_pc = "processing"
    /\ last_message_id' = cur_msg
    /\ cur_msg' = 0
    /\ listen_pc' = IF batch = <<>> THEN "sleep" ELSE "handle"
    /\ loop_event' = "processing_failed"
    /\ UNCHANGED <<processed_messages, processed_file, posted, batch, insertedAt,
                   markClock, routeCount, evictCount, skipCount, lastEvicted, crashes>>
    /\ in_flight' = in_flight - 1
    /\ UNCHANGED nonDedupVars

\* A variant of the loop's except clause that leaves the loop instead of sleeping.
LoopError_breaks ==
    /\ listen_pc = "handle"
    /\ batch' = <<>>
    /\ listen_pc' = "stopped"
    /\ loop_event' = "loop_error"
    /\ UNCHANGED <<processed_messages, processed_file, last_message_id, posted,
                   cur_msg, insertedAt, markClock, routeCount, evictCount,
                   skipCount, lastEvicted, crashes>>
    /\ UNCHANGED in_flight
    /\ UNCHANGED nonDedupVars

\* listen(), lines 252-261: an exception raised in the loop body outside the two
\* guarded calls (while the fetched list is walked, lines 229-243) reaches
\* `except Exception`: it is logged, the rest of the batch is abandoned and the
\* loop sleeps min(poll_interval * 3, 30) seconds.
LoopError ==
    /\ listen_pc = "handle"
    /\ batch' = <<>>
    /\ listen_pc' = "error_wait"
    /\ loop_event' = "loop_error"
    /\ UNCHANGED <<processed_messages, processed_file, last_message_id, posted,
                   cur_msg, insertedAt, markClock, routeCount, evictCount,
                   skipCount, lastEvicted, crashes>>
    /\ UNCHANGED in_flight
    /\ UNCHANGED nonDedupVars

\* listen(), lines 247 and 261: asyncio.sleep returns and `while True` takes the
\* next turn.
Wake ==
    /\ listen_pc \in {"sleep", "error_wait"}
    /\ listen_pc' = "poll"
    /\ UNCHANGED <<processed_messages, processed_file, last_message_id, posted,
                   batch, cur_msg, insertedAt, markClock, routeCount, evictCount,
                   skipCount, lastEvicted, crashes, loop_event>>
    /\ UNCHANGED in_flight
    /\ UNCHANGED nonDedupVars

\* listen(), lines 249-251: the operator's KeyboardInterrupt breaks the loop.
Interrupt ==
    /\ listen_pc # "stopped"
    /\ listen_pc' = "stopped"
    /\ batch' = <<>>
    /\ cur_msg' = 0
    /\ loop_event' = "interrupt"
    /\ UNCHANGED <<processed_messages, processed_file, last_message_id, posted,
                   insertedAt, markClock, routeCount, evictCount, skipCount,
                   lastEvicted, crashes>>
    /\ in_flight' = 0
    /\ UNCHANGED nonDedupVars

\* The process dies at any point and is started again: __init__ reloads the store
\* from the file (base.py:49) and listen starts with last_message_id = None.
CrashRestart ==
    /\ crashes < MaxCrashes
    /\ crashes' = crashes + 1
    /\ processed_messages' = LoadProcessed
    /\ last_message_id' = 0
    /\ batch' = <<>>
    /\ cur_msg' = 0
    /\ listen_pc' = "poll"
    /\ loop_event' = "ok"
    /\ UNCHANGED <<processed_file, posted, insertedAt, markClock, routeCount,
                   evictCount, skipCount, lastEvicted>>
    /\ in_flight' = 0
    /\ UNCHANGED nonDedupVars

(***************************************************************************)
(* DiscordAdapter: proxy health, circuit breaker, _make_request_with_retry. *)
(***************************************************************************)
IdleReq == [pc |-> "idle", attempt |-> 0, probe_time |-> 0, auto |-> FALSE,
            waited |-> FALSE, result |-> "none", start |-> FALSE]

\* A variant of _handle_proxy_failure that stops counting once the proxy is
\* unhealthy and never opens the circuit.
handle_proxy_failure_saturating ==
    /\ proxy_consecutive_failures' =
          IF proxy_consecutive_failures < max_proxy_failures
          THEN proxy_consecutive_failures + 1 ELSE proxy_consecutive_failures
    /\ proxy_healthy' = (proxy_healthy /\ proxy_consecutive_failures' < max_proxy_failures)
    /\ UNCHANGED <<circuit_breaker_open, circuit_breaker_open_time>>

\* discord.py _handle_proxy_failure
handle_proxy_failure ==
    /\ proxy_consecutive_failures' = proxy_consecutive_failures + 1
    /\ proxy_healthy' = IF proxy_consecutive_failures + 1 >= max_proxy_failures
                        THEN FALSE ELSE proxy_healthy
    /\ circuit_breaker_open' =
          IF proxy_consecutive_failures + 1 >= severe_failure_threshold
          THEN TRUE ELSE circuit_breaker_open
    /\ circuit_breaker_open_time' =
          IF proxy_consecutive_failures + 1 >= severe_failure_threshold
          THEN now ELSE circuit_breaker_open_time

\* discord.py _reset_proxy_health
reset_proxy_health ==
    /\ proxy_healthy' = TRUE
    /\ proxy_consecutive_failures' = 0
    /\ circuit_breaker_open' = FALSE
    /\ circuit_breaker_open_time' = IF circuit_breaker_open THEN 0
                                    ELSE circuit_breaker_open_time

\* A variant of the timeout test that needs more than the timeout to elapse.
CircuitTimedOut_strict == now - circuit_breaker_open_time > circuit_breaker_timeout

\* discord.py _is_circuit_breaker_open, line 205
CircuitTimedOut == now - circuit_breaker_open_time >= circuit_breaker_timeout

\* discord.py _is_circuit_breaker_open: its return value
is_circuit_breaker_open == circuit_breaker_open /\ ~CircuitTimedOut

\* A variant of the freshness test that never lets the cached answer expire.
ProbeNotDue_always == TRUE

\* discord.py _check_proxy_health, line 141: the cached answer is still fresh
ProbeNotDue == now - proxy_last_check < proxy_check_interval

\* A variant of supports_streaming that ignores the proxy's health.
supports_streaming_always == TRUE

\* discord.py supports_streaming, lines 643-649
supports_streaming == ~(proxy_config /\ ~proxy_healthy)

\* The task running DiscordAdapter.listen, the only one that handles Discord's
\* inbound messages (main.py:167).
ListenTask == SetMin(Callers)

\* A call is the placeholder send of start_streaming_response only in the listen
\* task and only when on_message found supports_streaming true (base.py:127);
\* nothing suspends between that test and the call (router.py:60-74).
MayStart(c, start) == start => (c = ListenTask /\ supports_streaming)

\* _make_request_with_retry, lines 280-282: the circuit is open, the call is
\* rejected without touching the network.
BeginRejectedByCircuit(c, start) ==
    /\ req[c].pc = "idle"
    /\ MayStart(c, start)
    /\ is_circuit_breaker_open
    /\ req' = [req EXCEPT ![c] = [IdleReq EXCEPT !.result = "blocked_circuit",
                                                 !.start = start]]
    /\ lastEvent' = "rejected"
    /\ UNCHANGED <<proxy_config, proxy_healthy, proxy_last_check,
                   proxy_consecutive_failures, circuit_breaker_open,
                   circuit_breaker_open_time, now>>
    /\ UNCHANGED nonCircuitVars

\* _make_request_with_retry, lines 280-289: the circuit is closed or has timed out
\* (_is_circuit_breaker_open closes it); with a proxy, _check_proxy_health either
\* answers from its cache or starts a probe; then attempt 0 is sent.
BeginRequest(c, start) ==
    /\ req[c].pc = "idle"
    /\ MayStart(c, start)
    /\ ~is_circuit_breaker_open
    /\ circuit_breaker_open' = FALSE
    /\ circuit_breaker_open_time' = IF circuit_breaker_open THEN 0
                                    ELSE circuit_breaker_open_time
    /\ req' = [req EXCEPT ![c] =
          IF proxy_config /\ ~ProbeNotDue
          THEN [pc |-> "probe", attempt |-> 0, probe_time |-> now,
                auto |-> circuit_breaker_open, waited |-> FALSE, result |-> "none",
                start |-> start]
          ELSE IF proxy_config /\ ~proxy_healthy
          THEN [IdleReq EXCEPT !.auto = circuit_breaker_open,
                               !.result = "blocked_unhealthy", !.start = start]
          ELSE [pc |-> "attempt", attempt |-> 0, probe_time |-> 0,
                auto |-> circuit_breaker_open, waited |-> FALSE, result |-> "none",
                start |-> start]]
    /\ lastEvent' = IF proxy_config /\ ProbeNotDue /\ ~proxy_healthy
                    THEN "rejected" ELSE "begin"
    /\ UNCHANGED <<proxy_config, proxy_healthy, proxy_last_check,
                   proxy_consecutive_failures, now>>
    /\ UNCHANGED nonCircuitVars

\* _check_proxy_health, lines 157-169, then _make_request_with_retry line 285: the
\* probe's response arrives.
ProbeReturns(c, ok) ==
    /\ req[c].pc = "probe"
    /\ IF ok
       THEN /\ proxy_healthy' = TRUE
            /\ proxy_consecutive_failures' = 0
            /\ UNCHANGED <<circuit_breaker_open, circuit_breaker_open_time>>
       ELSE handle_proxy_failure
    /\ proxy_last_check' = req[c].probe_time
    /\ req' = [req EXCEPT ![c] =
          IF proxy_healthy'
          THEN [@ EXCEPT !.pc = "attempt", !.attempt = 0, !.waited = FALSE]
          ELSE [@ EXCEPT !.pc = "idle", !.waited = FALSE,
                         !.result = "blocked_unhealthy"]]
    /\ lastEvent' = IF ok THEN "probe_ok" ELSE "probe_fail"
    /\ UNCHANGED <<proxy_config, now>>
    /\ UNCHANGED nonCircuitVars

\* _make_request_with_retry, lines 302-304 (and 316-318, 330-332): success.
AttemptSucceeds(c) ==
    /\ req[c].pc = "attempt"
    /\ reset_proxy_health
    /\ req' = [req EXCEPT ![c] = [@ EXCEPT !.pc = "idle", !.waited = FALSE,
                                           !.result = "ok"]]
    /\ lastEvent' = "op_ok"
    /\ UNCHANGED <<proxy_config, proxy_last_check, now>>
    /\ UNCHANGED nonCircuitVars

\* A variant that treats a status below 500 like a network failure and retries.
AttemptClientError_retried(c) ==
    /\ req[c].pc = "attempt"
    /\ req' = [req EXCEPT ![c] =
          IF req[c].attempt = max_retries
          THEN [@ EXCEPT !.pc = "idle", !.waited = FALSE, !.result = "client_error"]
          ELSE [@ EXCEPT !.attempt = @ + 1, !.waited = FALSE]]
    /\ lastEvent' = "op_client_error"
    /\ UNCHANGED <<proxy_config, proxy_healthy, proxy_last_check,
                   proxy_consecutive_failures, circuit_breaker_open,
                   circuit_breaker_open_time, now>>
    /\ UNCHANGED nonCircuitVars

\* _make_request_with_retry, lines 305-306: a status below 500 that is not a
\* success is returned to the caller at once.
AttemptClientError(c) ==
    /\ req[c].pc = "attempt"
    /\ req' = [req EXCEPT ![c] = [@ EXCEPT !.pc = "idle", !.waited = FALSE,
                                           !.result = "client_error"]]
    /\ lastEvent' = "op_client_error"
    /\ UNCHANGED <<proxy_config, proxy_healthy, proxy_last_check,
                   proxy_consecutive_failures, circuit_breaker_open,
                   circuit_breaker_open_time, now>>
    /\ UNCHANGED nonCircuitVars

\* A variant of the retry step that retries after the last attempt too.
AttemptNetworkFailure_retryAlways(c) ==
    /\ req[c].pc = "attempt"
    /\ req' = [req EXCEPT ![c] = [@ EXCEPT !.attempt = @ + 1, !.waited = FALSE]]
    /\ lastEvent' = "op_net_fail"
    /\ UNCHANGED <<proxy_config, proxy_healthy, proxy_last_check,
                   proxy_consecutive_failures, circuit_breaker_open,
                   circuit_breaker_open_time, now>>
    /\ UNCHANGED nonCircuitVars

\* _make_request_with_retry, lines 342-357: a timeout, a connection error or a
\* 5xx answer (raised as ClientResponseError); the failure is recorded only when a
\* proxy is configured, and the attempt is retried unless it was the last.
AttemptNetworkFailure(c) ==
    /\ req[c].pc = "attempt"
    /\ IF proxy_config
       THEN handle_proxy_failure
       ELSE UNCHANGED <<proxy_healthy, proxy_consecutive_failures,
                        circuit_breaker_open, circuit_breaker_open_time>>
    /\ req' = [req EXCEPT ![c] =
          IF req[c].attempt = max_retries
          THEN [@ EXCEPT !.pc = "idle", !.waited = FALSE, !.result = "raised"]
          ELSE [@ EXCEPT !.attempt = @ + 1, !.waited = FALSE]]
    /\ lastEvent' = "op_net_fail"
    /\ UNCHANGED <<proxy_config, proxy_last_check, now>>
    /\ UNCHANGED nonCircuitVars

\* _make_request_with_retry, lines 359-362: any other exception is re-raised.
AttemptOtherError(c) ==
    /\ req[c].pc = "attempt"
    /\ req' = [req EXCEPT ![c] = [@ EXCEPT !.pc = "idle", !.waited = FALSE,
                                           !.result = "raised"]]
    /\ lastEvent' = "op_other_error"
    /\ UNCHANGED <<proxy_config, proxy_healthy, proxy_last_check,
                   proxy_consecutive_failures, circuit_breaker_open,
                   circuit_breaker_open_time, now>>
    /\ UNCHANGED nonCircuitVars

\* Time passes.  A network call answers or times out within 60 s (ClientTimeout,
\* discord.py:293; 10 s for a probe, :150) and a backoff sleep lasts at most
\* max_delay * 1.5 = 45 s (:352-354): a sleep and the call after it take less than
\* one tick of 150 s, so no call in flight sees a second tick.
Tick ==
    /\ now < StartTime + MaxTicks
    /\ \A c \in Callers : ~req[c].waited
    /\ now' = now + 1
    /\ req' = [c \in Callers |->
                 IF req[c].pc = "idle" THEN req[c] ELSE [req[c] EXCEPT !.waited = TRUE]]
    /\ UNCHANGED <<proxy_config, proxy_healthy, proxy_last_check,
                   proxy_consecutive_failures, circuit_breaker_open,
                   circuit_breaker_open_time, lastEvent>>
    /\ UNCHANGED nonCircuitVars

\* discord.py __init__, lines 48-88.
CircuitInit ==
    /\ proxy_config \in BOOLEAN
    /\ proxy_healthy = TRUE
    /\ proxy_last_check = 0
    /\ proxy_consecutive_failures = 0
    /\ circuit_breaker_open = FALSE
    /\ circuit_breaker_open_time = 0
    /\ now = StartTime
    /\ req = [c \in Callers |-> IdleReq]
    /\ lastEvent = "none"

CircuitNext ==
    \/ \E c \in Callers : \E start \in BOOLEAN : BeginRejectedByCircuit(c, start)
    \/ \E c \in Callers : \E start \in BOOLEAN : BeginRequest(c, start)
    \/ \E c \in Callers : \E ok \in BOOLEAN : ProbeReturns(c, ok)
    \/ \E c \in Callers : AttemptSucceeds(c)
    \/ \E c \in Callers : AttemptClientError(c)
    \/ \E c \in Callers : AttemptNetworkFailure(c)
    \/ \E c \in Callers : AttemptOtherError(c)
    \/ Tick

(***************************************************************************)
(* One inbound request from an authorized sender: PlatformAdapter.on_message,*)
(* MessageRouter.process_with_streaming and the adapters' streaming calls.  *)
(* A text is the number of 5-character units it holds; the accumulated      *)
(* output grows with every chunk, so two partial texts are equal exactly    *)
(* when they are equally long.                                              *)
(***************************************************************************)
NoText == 0 - 1
EmptyText == 0
\* The placeholder sent by start_streaming_response; never a candidate text.
Placeholder == 0 - 2
Texts == 1..MaxText

NoCtx == [active |-> FALSE, last_content |-> NoText, last_update_time |-> 0]

\* What the message is: the adapter it came from, whether the adapter's
\* is_authorized accepts its sender, whether its content is a built-in command, a
\* .ps1 shell handler (router.py:72) or anything else, whether the router runs on
\* Windows (router.py:356), whether the adapter's supports_streaming answers True
\* (always on Telegram, telegram.py:343-345), whether the resolved targets
\* hold the originating conversation (always for a built-in command,
\* router.py:604, 609, 614, 619), and whether _determine_targets raises instead
\* of resolving: the route names a target other than "origin" while the
\* configuration's target_aliases section is empty, which yaml loads as None, so
\* that `target in target_aliases` (router.py:574) raises TypeError.
RequestConfigs ==
    {cfg \in [platform : {"discord", "telegram"},
              authorized : BOOLEAN,
              kind : {"builtin", "ps1", "other"},
              nt : BOOLEAN,
              supports_streaming : BOOLEAN,
              origin_target : BOOLEAN,
              targets_raise : BOOLEAN] :
        /\ (cfg.kind = "builtin" => cfg.origin_target /\ ~cfg.targets_raise)
        /\ (cfg.targets_raise => ~cfg.origin_target)
        /\ (cfg.platform = "telegram" => cfg.supports_streaming)}

\* No request has arrived yet.
NoRequest ==
    [platform |-> "none", authorized |-> FALSE, kind |-> "none", nt |-> FALSE,
     supports_streaming |-> FALSE, origin_target |-> FALSE,
     targets_raise |-> FALSE]

\* A variant of the adapters' gate that admits every message.
MessageAdmitted_all(cfg) == TRUE

\* telegram.py:184-190 and discord.py:466-469: whether process_telegram_message /
\* process_discord_message hands the message to on_message.  Telegram exempts
\* the built-in commands from authorization, Discord does not.
MessageAdmitted(cfg) ==
    IF cfg.platform = "telegram"
    THEN cfg.kind = "builtin" \/ cfg.authorized
    ELSE cfg.authorized

\* A variant of should_update that accepts a text of exactly 10 characters.
should_update_lenient(c, new_content) ==
    /\ snow - c.last_update_time >= update_interval
    /\ new_content # c.last_content
    /\ new_content >= MinContentUnits

\* base.py StreamingContext.should_update
should_update(c, new_content) ==
    /\ snow - c.last_update_time >= update_interval
    /\ new_content # c.last_content
    /\ new_content > MinContentUnits

\* The outcomes of edit_message_plain.  discord.py:531-562 returns True or False
\* with the transport; TelegramAdapter defines no edit_message_plain, so the call
\* at telegram.py:378 raises AttributeError and update_streaming_response returns
\* False (telegram.py:388-390).
EditOutcomes(platform) == IF platform = "discord" THEN {TRUE, FALSE} ELSE {FALSE}

\* No evaluation of should_update yet.
NoEval == [called |-> FALSE, elapsed |-> 0, cand |-> NoText, last |-> NoText,
           answer |-> FALSE]

\* The history after should_update(c, new_content) was evaluated: what it was
\* given and what it answered.
Evaluated(h, c, new_content) ==
    [h EXCEPT !.evals = @ + 1,
              !.su = [called |-> TRUE, elapsed |-> snow - c.last_update_time,
                      cand |-> new_content, last |-> c.last_content,
                      answer |-> should_update(c, new_content)]]

\* A variant of the bookkeeping that records the text even when the edit failed.
AfterEdit_evenOnFailure(c, content, ok) ==
    [c EXCEPT !.last_content = content, !.last_update_time = snow]

\* discord.py:678-687 / telegram.py:378-387 and router.py:400-403: the context
\* after an edit with outcome ok; only a successful edit is recorded.
AfterEdit(c, content, ok) ==
    IF ok THEN [c EXCEPT !.last_content = content, !.last_update_time = snow]
    ELSE c

\* The history after an edit was issued with outcome ok; byFinalize tells
\* whether finalize_streaming_response issued it.
EditIssued(h, ok, byFinalize) ==
    [h EXCEPT !.edits = @ + 1,
              !.editOk = ok,
              !.issued = h.su.cand,
              !.shown = IF ok THEN @ + 1 ELSE @,
              !.finEdits = IF byFinalize THEN @ + 1 ELSE @,
              !.finalEditFailed = IF byFinalize THEN ~ok ELSE @,
              !.transportFailed = @ \/ (~ok /\ s_cfg.platform = "discord")]

\* base.py on_message, lines 125-131 and 149-151, with router.py:60-72: where the
\* request goes first.  A built-in command answered by process_with_streaming
\* yields a response whose only target is the origin, which lines 135-139 skip.
\* force_degraded_mode is set only by the except branch at base.py:140-145, which
\* is never entered: process_with_streaming (router.py:86-88) and send_to_target
\* (base.py:185-187) catch every Exception themselves.
OnMessage(cfg) ==
    /\ s_pc = "idle"
    /\ MessageAdmitted(cfg)
    /\ s_cfg' = cfg
    /\ s_pc' = IF ~(cfg.supports_streaming /\ ~force_degraded_mode) THEN "batch"
               ELSE IF cfg.kind = "builtin" THEN "done"
               ELSE IF cfg.kind = "ps1" THEN "start"
               ELSE "batch"
    /\ UNCHANGED <<force_degraded_mode, ctx, live, acc, result, snow, hist>>
    /\ UNCHANGED nonStreamVars

\* telegram.py:188-190 and discord.py:466-469: the sender is not authorized, the
\* message is ignored without a word.
DropUnauthorized(cfg) ==
    /\ s_pc = "idle"
    /\ ~MessageAdmitted(cfg)
    /\ s_cfg' = cfg
    /\ s_pc' = "dropped"
    /\ UNCHANGED <<force_degraded_mode, ctx, live, acc, result, snow, hist>>
    /\ UNCHANGED nonStreamVars

\* router.py:74 with discord.py:651-668 / telegram.py:347-364: the placeholder is
\* sent.  On success the command starts: streamed on Windows (router.py:356-381),
\* otherwise run to its end by _execute_shell_handler (router.py:418), whose
\* output is the final text.
StartStreaming(ok, out) ==
    /\ s_pc = "start"
    /\ IF ok
       THEN /\ ctx' = [active |-> TRUE, last_content |-> Placeholder,
                       last_update_time |-> snow]
            /\ live' = Placeholder
            /\ hist' = [hist EXCEPT !.cmdRuns = @ + 1, !.sends = @ + 1]
            /\ IF s_cfg.nt
               THEN /\ s_pc' = "streaming"
                    /\ UNCHANGED result
               ELSE /\ s_pc' = "finalize"
                    /\ result' = out
       ELSE /\ s_pc' = "batch"
            /\ hist' = [hist EXCEPT !.startFailed = TRUE, !.transportFailed = TRUE,
                                    !.sends = @ + 1]
            /\ UNCHANGED <<ctx, live, result>>
    /\ UNCHANGED <<s_cfg, force_degraded_mode, acc, snow>>
    /\ UNCHANGED nonStreamVars

\* A variant of the parser that yields the text accumulated before the line.
parse_streaming_line_stale(assistant, n) == IF assistant THEN acc ELSE EmptyText

\* router.py:424-448 _parse_streaming_line: an assistant line appends its n units
\* of text and yields the accumulated text; any other line yields the empty text.
parse_streaming_line(assistant, n) == IF assistant THEN acc + n ELSE EmptyText

\* router.py:387-403 with discord.py:670-690 / telegram.py:366-390: one line of
\* output.  The router offers a non-empty accumulated text to should_update, the
\* adapter checks should_update again and edits; both record an accepted edit in
\* the context.
StreamLine(assistant, n, ok) ==
    /\ s_pc = "streaming"
    /\ hist.lines < MaxLines
    /\ acc + n <= MaxText
    /\ (~assistant => n = 0)
    /\ acc' = IF assistant THEN acc + n ELSE acc
    /\ LET partial_response == parse_streaming_line(assistant, n)
           evaluated == IF partial_response # EmptyText
                        THEN Evaluated(hist, ctx, partial_response) ELSE hist
       IN IF partial_response # EmptyText /\ should_update(ctx, partial_response)
          THEN /\ hist' = [EditIssued(evaluated, ok, FALSE) EXCEPT !.lines = @ + 1]
               /\ live' = IF ok THEN partial_response ELSE live
               /\ ctx' = AfterEdit(ctx, partial_response, ok)
          ELSE /\ hist' = [evaluated EXCEPT !.lines = @ + 1]
               /\ UNCHANGED <<live, ctx>>
    /\ UNCHANGED <<s_cfg, s_pc, force_degraded_mode, result, snow>>
    /\ UNCHANGED nonStreamVars

\* router.py:388-389 and 405-414: the command's output ends; the final text is the
\* accumulated text, or the sentinel when there is none.
CommandEnds ==
    /\ s_pc = "streaming"
    /\ result' = IF acc # EmptyText THEN acc ELSE NoResponseText
    /\ s_pc' = "finalize"
    /\ UNCHANGED <<s_cfg, force_degraded_mode, ctx, live, acc, snow, hist>>
    /\ UNCHANGED nonStreamVars

\* router.py:77-81 with discord.py:692-703 / telegram.py:392-403, then base.py
\* 132-139: finalize_streaming_response edits through update_streaming_response
\* (so through should_update) when the final text differs from last_content; its
\* return value is dropped, the response is returned and on_message sends it to
\* the targets other than the origin.  When _determine_targets raises, the
\* except branch (router.py:86-88) returns None like a request unfit for
\* streaming, and on_message goes on to router.process (base.py:148-151).
Finalize(ok) ==
    /\ s_pc = "finalize"
    /\ IF result # ctx.last_content /\ should_update(ctx, result)
       THEN /\ hist' = [EditIssued(Evaluated(hist, ctx, result), ok, TRUE) EXCEPT
                           !.finCalled = TRUE, !.finNeeded = TRUE,
                           !.editsAtFinalize = hist.edits + 1]
            /\ live' = IF ok THEN result ELSE live
            /\ ctx' = AfterEdit(ctx, result, ok)
       ELSE /\ hist' = [(IF result # ctx.last_content
                         THEN Evaluated(hist, ctx, result) ELSE hist) EXCEPT
                           !.finCalled = TRUE,
                           !.finNeeded = (result # ctx.last_content),
                           !.editsAtFinalize = hist.edits]
            /\ UNCHANGED <<live, ctx>>
    /\ s_pc' = IF s_cfg.targets_raise THEN "batch" ELSE "done"
    /\ UNCHANGED <<s_cfg, force_degraded_mode, acc, result, snow>>
    /\ UNCHANGED nonStreamVars

\* base.py:149-156 with router.py:34-55: router.process answers a built-in
\* command itself and runs any other handler to its end; the response is sent to
\* every target, the origin among them when it is one.  When _determine_targets
\* raises, after the handler has run, process answers the origin with the error
\* text (router.py:53-55).
BatchProcess(out, ok) ==
    /\ s_pc = "batch"
    /\ result' = IF s_cfg.targets_raise THEN ProcessingErrorText ELSE out
    /\ hist' = [hist EXCEPT
          !.cmdRuns = IF s_cfg.kind = "builtin" THEN @ ELSE @ + 1,
          !.batchRuns = @ + 1,
          !.sends = IF s_cfg.origin_target \/ s_cfg.targets_raise THEN @ + 1 ELSE @,
          !.batchSends = IF (s_cfg.origin_target \/ s_cfg.targets_raise) /\ ok
                         THEN @ + 1 ELSE @,
          !.transportFailed = @ \/ ((s_cfg.origin_target \/ s_cfg.targets_raise)
                                        /\ ~ok)]
    /\ s_pc' = "done"
    /\ UNCHANGED <<s_cfg, force_degraded_mode, ctx, live, acc, snow>>
    /\ UNCHANGED nonStreamVars

\* A second passes while the request is handled.
StreamTick ==
    /\ s_pc \in {"start", "streaming", "finalize", "batch"}
    /\ snow < MaxSeconds
    /\ snow' = snow + 1
    /\ UNCHANGED <<s_cfg, s_pc, force_degraded_mode, ctx, live, acc, result, hist>>
    /\ UNCHANGED nonStreamVars

StreamInit ==
    /\ s_cfg = NoRequest
    /\ s_pc = "idle"
    /\ force_degraded_mode = FALSE
    /\ ctx = NoCtx
    /\ live = NoText
    /\ acc = EmptyText
    /\ result = NoText
    /\ snow = 0
    /\ hist = [edits |-> 0, finEdits |-> 0, finCalled |-> FALSE, finNeeded |-> FALSE,
               finalEditFailed |-> FALSE, startFailed |-> FALSE,
               transportFailed |-> FALSE, batchRuns |-> 0, batchSends |-> 0,
               cmdRuns |-> 0, lines |-> 0, editsAtFinalize |-> 0,
               evals |-> 0, su |-> NoEval, editOk |-> FALSE, sends |-> 0,
               issued |-> NoText, shown |-> 0]

StreamNext ==
    \/ \E cfg \in RequestConfigs : OnMessage(cfg)
    \/ \E cfg \in RequestConfigs : DropUnauthorized(cfg)
    \/ \E ok \in BOOLEAN : \E out \in Texts : StartStreaming(ok, out)
    \/ \E assistant \in BOOLEAN : \E n \in 0..2 :
          \E ok \in EditOutcomes(s_cfg.platform) : StreamLine(assistant, n, ok)
    \/ CommandEnds
    \/ \E ok \in EditOutcomes(s_cfg.platform) : Finalize(ok)
    \/ \E out \in Texts : \E ok \in BOOLEAN : BatchProcess(out, ok)
    \/ StreamTick

(***************************************************************************)
(* MessageRouter._execute_shell_handler: one batch command.                *)
(***************************************************************************)
RunConfigs == [os_nt : BOOLEAN, ps1 : BOOLEAN, timeout : 1..MaxTimeout]

NoRun == [os_nt |-> FALSE, ps1 |-> FALSE, timeout |-> 1]

\* router.py 217-302: how the command is launched. On Windows a .ps1 command is
\* run by powershell.exe through the blocking subprocess.run (245-249), any
\* other command through create_subprocess_shell (274-280); elsewhere the
\* command is executed directly by create_subprocess_exec (296-302).
LaunchPath(cfg) ==
    IF cfg.os_nt THEN (IF cfg.ps1 THEN "powershell_run" ELSE "shell") ELSE "exec"

\* The processes alive once the command runs. create_subprocess_shell starts the
\* platform shell (cmd.exe /c on Windows), which starts the command as its
\* child; powershell.exe runs the .ps1 script in its own process; exec starts
\* the command itself.
Spawned(cfg) ==
    IF LaunchPath(cfg) = "shell" THEN {"shell", "command"} ELSE {"command"}

\* The process the handler holds (`process`, or the Popen inside
\* subprocess.run): the one kill() is sent to.
HeldProcess(cfg) == IF LaunchPath(cfg) = "shell" THEN "shell" ELSE "command"

\* router.py 306-309: wait_for raises TimeoutError, the handler returns
\* "Command timed out after N seconds". router.py 245-249, 329-334:
\* subprocess.run raises TimeoutExpired, which only the outer handler catches:
\* "Handler execution error: Command '...' timed out after N seconds".
TimeoutResponse(cfg) ==
    IF LaunchPath(cfg) = "powershell_run" THEN "handler_error_timed_out"
    ELSE "command_timed_out"

\* router.py 217-302: the subprocess is created and the handler waits for it.
StartBatch(cfg) ==
    /\ run_pc = "idle"
    /\ run_cfg' = cfg
    /\ run_pc' = "waiting"
    /\ run_elapsed' = 0
    /\ os_procs' = Spawned(cfg)
    /\ UNCHANGED <<run_response, run_timed_out>>
    /\ UNCHANGED nonRunVars

\* Time passes while the handler waits (at most the timeout).
RunTick ==
    /\ run_pc = "waiting"
    /\ run_elapsed < run_cfg.timeout
    /\ run_elapsed' = run_elapsed + 1
    /\ UNCHANGED <<run_cfg, run_pc, os_procs, run_response, run_timed_out>>
    /\ UNCHANGED nonRunVars

\* router.py 251-264, 314-327: the command ends within the timeout; the handler
\* returns the extracted output or "Command failed: ...".
CommandExits(ok) ==
    /\ run_pc = "waiting"
    /\ run_elapsed < run_cfg.timeout
    /\ os_procs' = {}
    /\ run_response' = IF ok THEN "output" ELSE "command_failed"
    /\ run_pc' = "returned"
    /\ UNCHANGED <<run_cfg, run_elapsed, run_timed_out>>
    /\ UNCHANGED nonRunVars

\* router.py 305-309 (and subprocess.run's timeout, 245-249): the timeout
\* expires, kill() ends the held process and the handler returns at once,
\* without waiting for or looking at any other process.
TimeoutFires ==
    /\ run_pc = "waiting"
    /\ run_elapsed = run_cfg.timeout
    /\ os_procs' = os_procs \ {HeldProcess(run_cfg)}
    /\ run_response' = TimeoutResponse(run_cfg)
    /\ run_timed_out' = TRUE
    /\ run_pc' = "returned"
    /\ UNCHANGED <<run_cfg, run_elapsed>>
    /\ UNCHANGED nonRunVars

\* A command that outlived its handler ends on its own, if it ever does.
OrphanExits ==
    /\ run_pc = "returned"
    /\ os_procs # {}
    /\ os_procs' = {}
    /\ UNCHANGED <<run_cfg, run_pc, run_elapsed, run_response, run_timed_out>>
    /\ UNCHANGED nonRunVars

RunInit ==
    /\ run_cfg = NoRun
    /\ run_pc = "idle"
    /\ run_elapsed = 0
    /\ os_procs = {}
    /\ run_response = "none"
    /\ run_timed_out = FALSE

RunNext ==
    \/ \E cfg \in RunConfigs : StartBatch(cfg)
    \/ RunTick
    \/ \E ok \in BOOLEAN : CommandExits(ok)
    \/ TimeoutFires
    \/ OrphanExits

(***************************************************************************)
(* MessageRouter: _find_handler, _execute_handler, _determine_targets.     *)
(***************************************************************************)
\* Strings are sequences of characters.
Chars == {"/", "a", " "}

StringsUpTo(n) == UNION {[1..k -> Chars] : k \in 0..n}

\* str.startswith
startswith(str, prefix) ==
    /\ Len(prefix) <= Len(str)
    /\ SubSeq(str, 1, Len(prefix)) = prefix

\* The whitespace characters of the texts explored.
Whitespace == {" ", "\n"}

RECURSIVE lstrip(_)
lstrip(str) ==
    IF str # <<>> /\ Head(str) \in Whitespace THEN lstrip(Tail(str)) ELSE str

RECURSIVE rstrip(_)
rstrip(str) ==
    IF str # <<>> /\ str[Len(str)] \in Whitespace
    THEN rstrip(SubSeq(str, 1, Len(str) - 1))
    ELSE str

\* str.strip
strip(str) == rstrip(lstrip(str))

\* A route without "targets" (or written in the old format, a bare handler
\* name): router.py:137-144, 158-165.
Unset == <<"<unset>">>

route_targets(route) == IF route.targets = Unset THEN <<"origin">> ELSE route.targets

\* routes.commands: an ordered mapping (a dict keeps the order of the file) from
\* prefix to route.
Prefixes == {<<"/">>, <<"/", "a">>, <<"a">>}

CommandRoutes ==
    [command : Prefixes, handler : {"h1", "missing"},
     targets : {Unset, <<"audit", "origin">>}]

CommandTables ==
    {<<>>} \cup {<<r>> : r \in CommandRoutes}
           \cup {t \in CommandRoutes \X CommandRoutes : t[1].command # t[2].command}

\* routes.users: no entry, or one for user "u1".
NoUserRoute == [user |-> "nobody", handler |-> "none", targets |-> Unset]

UserRoutes ==
    {NoUserRoute} \cup [user : {"u1"}, handler : {"h2", "missing"},
                        targets : {Unset, <<"team">>}]

\* target_aliases: per alias name no entry, a list, or a single value.
NoAlias == [defined |-> FALSE, list |-> FALSE, items |-> <<>>, single |-> "none"]

AliasValues ==
    {NoAlias,
     [defined |-> TRUE, list |-> TRUE, items |-> <<"telegram:1", "discord:2">>,
      single |-> "none"],
     [defined |-> TRUE, list |-> TRUE, items |-> <<>>, single |-> "none"],
     [defined |-> TRUE, list |-> FALSE, items |-> <<>>, single |-> "discord:3"]}

AliasNames == {"audit", "team", "origin"}

AliasTables == [AliasNames -> AliasValues]

\* The alias table of the routing configurations.
ConfigAliases ==
    [n \in AliasNames |->
        IF n = "audit"
        THEN [defined |-> TRUE, list |-> TRUE,
              items |-> <<"telegram:1", "discord:2">>, single |-> "none"]
        ELSE NoAlias]

\* The configured handlers: "h1" and "h2" are shell handlers with their own
\* command; "claude" and "missing" are not in the table.
HandlerTable == {"h1", "h2"}

RouterConfigs ==
    [commands : CommandTables, users : UserRoutes, default : {"claude", "h1"},
     target_aliases : {ConfigAliases}]

NoConfig ==
    [commands |-> <<>>, users |-> NoUserRoute, default |-> "claude",
     target_aliases |-> ConfigAliases]

\* router.py:146-148, 167-169, 174-181: handlers.get(name, {}).copy() with name,
\* targets and content added.  `configured` tells whether the table had the
\* name; `command` is what handler_config.get("command", "claude")
\* (router.py:203) yields; `via` records the branch taken.
handler_config(name, targets, content, via) ==
    [name |-> name, targets |-> targets, content |-> content, via |-> via,
     configured |-> name \in HandlerTable,
     type |-> "shell",
     command |-> IF name \in HandlerTable THEN name ELSE "claude"]

NoHandler ==
    [name |-> "none", targets |-> <<>>, content |-> <<>>, via |-> "none",
     configured |-> FALSE, type |-> "none", command |-> "none"]

\* router.py:150-153: the content handed on when `command` matched.
clean_content(content, command) ==
    LET clean == strip(SubSeq(content, Len(command) + 1, Len(content)))
    IN IF clean # <<>> THEN clean ELSE content

\* A variant of the scan that keeps the last matching prefix.
RECURSIVE scan_commands_last(_, _)
scan_commands_last(commands, content) ==
    IF commands = <<>> THEN NoHandler
    ELSE LET rest == scan_commands_last(Tail(commands), content)
             route == Head(commands)
         IN IF rest # NoHandler THEN rest
            ELSE IF startswith(content, route.command)
            THEN handler_config(route.handler, route_targets(route),
                                clean_content(content, route.command), "command")
            ELSE NoHandler

\* router.py:133-153: the loop over routes.commands, in order; NoHandler when no
\* prefix matches.
RECURSIVE scan_commands(_, _)
scan_commands(commands, content) ==
    IF commands = <<>> THEN NoHandler
    ELSE LET route == Head(commands)
         IN IF startswith(content, route.command)
            THEN handler_config(route.handler, route_targets(route),
                                clean_content(content, route.command), "command")
            ELSE scan_commands(Tail(commands), content)

\* router.py:127-184 _find_handler.
find_handler(cfg, content, user_id) ==
    LET by_command == scan_commands(cfg.commands, content)
    IN IF by_command # NoHandler THEN by_command
       ELSE IF user_id = cfg.users.user
       THEN handler_config(cfg.users.handler, route_targets(cfg.users), content, "user")
       ELSE handler_config(cfg.default, <<"origin">>, content, "default")

NoExec == [ran |-> FALSE, command |-> "none", content |-> <<>>, response |-> "none"]

\* router.py:186-198 with 200-215: a shell handler runs its command (by default
\* "claude") on handler_config["content"]; any other type is answered with
\* "Unknown handler type".
execute_handler(hc) ==
    IF hc.type = "shell"
    THEN [ran |-> TRUE, command |-> hc.command, content |-> hc.content,
          response |-> "command_output"]
    ELSE [ran |-> FALSE, command |-> "none", content |-> <<>>,
          response |-> "unknown_handler_type"]

\* f"{platform}:{chat_id}"
origin_address(platform, chat_id) == platform \o ":" \o chat_id

\* A variant of the expansion that looks the alias table up first.
RECURSIVE determine_targets_aliasFirst(_, _, _, _)
determine_targets_aliasFirst(platform, chat_id, targets, target_aliases) ==
    IF targets = <<>> THEN <<>>
    ELSE LET target == Head(targets)
             rest == determine_targets_aliasFirst(platform, chat_id, Tail(targets),
                                                  target_aliases)
         IN IF target \in AliasNames /\ target_aliases[target].defined
            THEN (IF target_aliases[target].list
                  THEN target_aliases[target].items
                  ELSE <<target_aliases[target].single>>) \o rest
            ELSE IF target = "origin"
            THEN <<origin_address(platform, chat_id)>> \o rest
            ELSE <<target>> \o rest

\* router.py:561-587 _determine_targets: the loop over the configured targets.
RECURSIVE determine_targets(_, _, _, _)
determine_targets(platform, chat_id, targets, target_aliases) ==
    IF targets = <<>> THEN <<>>
    ELSE LET target == Head(targets)
             rest == determine_targets(platform, chat_id, Tail(targets),
                                       target_aliases)
         IN IF target = "origin"
            THEN <<origin_address(platform, chat_id)>> \o rest
            ELSE IF target \in AliasNames /\ target_aliases[target].defined
            THEN (IF target_aliases[target].list
                  THEN target_aliases[target].items
                  ELSE <<target_aliases[target].single>>) \o rest
            ELSE <<target>> \o rest

NoInput ==
    [platform |-> "none", user_id |-> "none", chat_id |-> "none", content |-> <<>>,
     targets |-> <<>>]

\* router.py:23-26: the router is built with its configuration.
LoadConfig ==
    /\ r_pc = "idle"
    /\ \E cfg \in RouterConfigs : r_cfg' = cfg
    /\ r_pc' = "ready"
    /\ UNCHANGED <<r_in, r_handler, r_exec, r_targets>>
    /\ UNCHANGED nonRouteVars

\* router.py:34-55 process, for a content that is no built-in command (none over
\* these characters is): resolve, execute, expand the targets.
RouterProcess ==
    /\ r_pc = "ready"
    /\ \E user_id \in {"u1", "u2"} : \E content \in StringsUpTo(MaxContent) :
          LET hc == find_handler(r_cfg, content, user_id)
          IN /\ r_in' = [platform |-> "discord", user_id |-> user_id,
                         chat_id |-> "7", content |-> content, targets |-> <<>>]
             /\ r_handler' = hc
             /\ r_exec' = execute_handler(hc)
             /\ r_targets' = determine_targets("discord", "7", hc.targets,
                                               r_cfg.target_aliases)
    /\ r_pc' = "processed"
    /\ UNCHANGED r_cfg
    /\ UNCHANGED nonRouteVars

TargetNames == {"origin", "audit", "team", "slack:9"}

TargetLists == UNION {[1..k -> TargetNames] : k \in 0..MaxTargets}

\* router.py:561-587 _determine_targets applied to a handler's target list under
\* an alias table.
ExpandTargets ==
    /\ r_pc = "idle"
    /\ \E platform \in {"discord", "telegram"} : \E targets \in TargetLists :
          \E target_aliases \in AliasTables :
             /\ r_cfg' = [NoConfig EXCEPT !.target_aliases = target_aliases]
             /\ r_in' = [platform |-> platform, user_id |-> "none", chat_id |-> "7",
                         content |-> <<>>, targets |-> targets]
             /\ r_targets' = determine_targets(platform, "7", targets, target_aliases)
    /\ r_pc' = "expanded"
    /\ UNCHANGED <<r_handler, r_exec>>
    /\ UNCHANGED nonRouteVars

RouteInit ==
    /\ r_cfg = NoConfig
    /\ r_pc = "idle"
    /\ r_in = NoInput
    /\ r_handler = NoHandler
    /\ r_exec = NoExec
    /\ r_targets = <<>>

RouteNext ==
    \/ LoadConfig
    \/ RouterProcess
    \/ ExpandTargets

(***************************************************************************)
(* DiscordAdapter.split_message (TelegramAdapter and TelegramBot alike).   *)
(***************************************************************************)
SplitChars == {"a", ".", " ", "\n"}

SplitTexts == UNION {[1..k -> SplitChars] : k \in 0..MaxSplitLen}

\* discord.py:573-579: the split patterns, by priority.
split_patterns == <<(<<"\n", "\n">>), (<<"\n">>), (<<".", " ">>), (<<",", " ">>), (<<" ">>)>>

\* str.rfind: the highest 0-based index at which pattern occurs in chunk, -1 when
\* it does not occur.
rfind(chunk, pattern) ==
    LET found == {i \in 0..(Len(chunk) - Len(pattern)) :
                    SubSeq(chunk, i + 1, i + Len(pattern)) = pattern}
    IN IF found = {} THEN 0 - 1 ELSE SetMax(found)

\* discord.py:589-596: the first pattern, by priority, whose last occurrence in
\* the first max_message_length characters lies beyond the middle gives the
\* split point (just after the pattern).
RECURSIVE split_after(_, _)
split_after(chunk, k) ==
    IF k > Len(split_patterns) THEN max_message_length
    ELSE IF rfind(chunk, split_patterns[k]) > max_message_length \div 2
    THEN rfind(chunk, split_patterns[k]) + Len(split_patterns[k])
    ELSE split_after(chunk, k + 1)

\* A variant of the split point that cuts one character beyond the limit.
best_split_beyond(remaining) == max_message_length + 1

\* discord.py:586-596 best_split.
best_split(remaining) == split_after(SubSeq(remaining, 1, max_message_length), 1)

\* discord.py:599: part = remaining[:best_split].rstrip()
part_of(remaining, cut) == rstrip(SubSeq(remaining, 1, cut))

\* A variant of the remainder that skips the character after the cut.
rest_of_skipping(remaining, cut) ==
    lstrip(SubSeq(remaining, cut + 2, Len(remaining)))

\* discord.py:601: remaining = remaining[best_split:].lstrip()
rest_of(remaining, cut) == lstrip(SubSeq(remaining, cut + 1, Len(remaining)))

\* discord.py:581-601: the while loop.
RECURSIVE split_loop(_)
split_loop(remaining) ==
    IF remaining = <<>> THEN <<>>
    ELSE IF Len(remaining) <= max_message_length THEN <<remaining>>
    ELSE <<part_of(remaining, best_split(remaining))>>
             \o split_loop(rest_of(remaining, best_split(remaining)))

\* discord.py:564-603 split_message.
split_message(text) ==
    IF Len(text) <= max_message_length THEN <<text>> ELSE split_loop(text)

\* split_message is applied to a text.
SplitMessage ==
    /\ sp_pc = "idle"
    /\ \E text \in SplitTexts :
          /\ sp_text' = text
          /\ sp_parts' = split_message(text)
    /\ sp_pc' = "split"
    /\ UNCHANGED sp_sent
    /\ UNCHANGED nonSplitVars

\* telegram.py:316 / discord.py:620: the header of part i of n.  The header
\* ("[1/2]" and two line breaks, 7 characters; 11 with Discord's asterisks) is
\* one unit of the scaled text.
part_header(i, n) == <<"[" \o ToString(i) \o "/" \o ToString(n) \o "]">>

\* telegram.py:302-340 / discord.py:605-640 send_long_message: a text of one
\* part is sent as it is, otherwise every part is sent behind its header; a
\* part that fails to send does not stop the loop.
long_message_texts(text, parts) ==
    IF Len(parts) = 1 THEN <<text>>
    ELSE [i \in 1..Len(parts) |-> part_header(i, Len(parts)) \o parts[i]]

SendLongMessage ==
    /\ sp_pc = "split"
    /\ sp_sent' = long_message_texts(sp_text, sp_parts)
    /\ sp_pc' = "sent"
    /\ UNCHANGED <<sp_text, sp_parts>>
    /\ UNCHANGED nonSplitVars

SplitInit ==
    /\ sp_pc = "idle"
    /\ sp_text = <<>>
    /\ sp_parts = <<>>
    /\ sp_sent = <<>>

SplitNext == SplitMessage \/ SendLongMessage

(***************************************************************************)
(* _extract_claude_response: MessageRouter (router.py:454-538) and         *)
(* TelegramBot (telegram_bot.py:192-270).  A text is a sequence of units:  *)
(* single characters, or a whole token ("(no content)", a banner line, a   *)
(* sentinel) where the code only ever handles the token as a whole.        *)
(***************************************************************************)
NoContentMarker == "(no content)"

\* The text payloads of assistant events.
Payloads == {<<>>, <<"A">>, <<"B">>, <<" ", "A">>, <<" ">>, <<NoContentMarker>>}

\* The payloads of success result events.
ResultPayloads == {<<>>, <<"Z">>}

\* One line of output: an assistant event, a success result event, another
\* JSON object (a system event), a line that is valid JSON but not an object
\* (a bare number), a banner line, a line of plain text, or a blank line.
OutputLines ==
    [kind : {"assistant"}, text : Payloads]
        \cup [kind : {"result"}, text : ResultPayloads]
        \cup { [kind |-> "object", text |-> <<"{system}">>],
               [kind |-> "scalar", text |-> <<"4">>],
               [kind |-> "noise", text |-> <<"Windows PowerShell">>],
               [kind |-> "plain", text |-> <<"a">>],
               [kind |-> "blank", text |-> <<>>] }

\* output.split('\n'): an output is its lines, at least one.
Outputs == UNION {[1..k -> OutputLines] : k \in 1..MaxOutputLines}

\* The characters of a line as the command printed it.
raw_line(l) ==
    CASE l.kind = "assistant" -> <<"{assistant:">> \o l.text \o <<"}">>
      [] l.kind = "result" -> <<"{result:">> \o l.text \o <<"}">>
      [] OTHER -> l.text

\* json.loads(line): a dict, another JSON value, or JSONDecodeError.
json_loads(l) ==
    CASE l.kind \in {"assistant", "result", "object"} -> "dict"
      [] l.kind = "scalar" -> "value"
      [] OTHER -> "JSONDecodeError"

\* What a call gave back: a text, or an exception that left the function.
Returned(text) == [done |-> TRUE, raised |-> FALSE, text |-> text]
Raised == [done |-> TRUE, raised |-> TRUE, text |-> <<>>]
NotExtracted == [done |-> FALSE, raised |-> FALSE, text |-> <<>>]

\* router.py:457, 534 and telegram_bot.py:195, 268.
NoResponseSentinel == <<"Command executed but no response received.">>
\* router.py:559.
NoDisplaySentinel == <<"Response processed but no content to display">>

\* sep.join(texts)
RECURSIVE join_with(_, _)
join_with(texts, sep) ==
    IF texts = <<>> THEN <<>>
    ELSE IF Len(texts) = 1 THEN texts[1]
    ELSE texts[1] \o sep \o join_with(Tail(texts), sep)

\* str.split(): the maximal runs of non-whitespace units, in order.
RECURSIVE split_words(_, _)
split_words(str, word) ==
    IF str = <<>> THEN (IF word = <<>> THEN <<>> ELSE <<word>>)
    ELSE IF Head(str) \in Whitespace
    THEN (IF word = <<>> THEN <<>> ELSE <<word>>) \o split_words(Tail(str), <<>>)
    ELSE split_words(Tail(str), Append(word, Head(str)))

\* router.py:456 / telegram_bot.py:194: not output or not output.strip()
is_blank_output(lines) == \A i \in 1..Len(lines) : strip(raw_line(lines[i])) = <<>>

\* router.py:507-516 / telegram_bot.py:241-250: the lines the text scrub skips
\* (of the listed markers the modelled lines carry "Windows PowerShell").
is_noise_line(l) == l.kind = "noise" \/ strip(raw_line(l)) = <<>>

\* router.py:500-525 / telegram_bot.py:234-259: the stripped lines that are
\* not skipped, joined by line breaks (found_content turns true at the first
\* line kept and stays true).
RECURSIVE clean_lines(_)
clean_lines(lines) ==
    IF lines = <<>> THEN <<>>
    ELSE IF is_noise_line(Head(lines)) THEN clean_lines(Tail(lines))
    ELSE <<strip(raw_line(Head(lines)))>> \o clean_lines(Tail(lines))

text_scrub(lines) == strip(join_with(clean_lines(lines), <<"\n">>))

\* router.py:531-532 / telegram_bot.py:265-266: ' '.join(output.split()), cut
\* to summary_limit characters and "..." when longer.
output_summary(lines) ==
    LET output == join_with([i \in 1..Len(lines) |-> raw_line(lines[i])], <<"\n">>)
        summary == strip(join_with(split_words(output, <<>>), <<" ">>))
    IN IF Len(summary) > summary_limit
       THEN SubSeq(summary, 1, summary_limit) \o <<".", ".", ".">>
       ELSE summary

\* router.py:540-559 _clean_response_content: the "(no content)" markers are
\* removed and the text stripped; nothing left gives the sentinel.  (No
\* modelled text holds three line breaks in a row, which 556 would collapse.)
clean_response_content(content) ==
    LET kept(u) == u # NoContentMarker
    IN IF content = <<>> THEN <<>>
       ELSE IF strip(SelectSeq(content, kept)) = <<>> THEN NoDisplaySentinel
       ELSE strip(SelectSeq(content, kept))

\* router.py:491-496: the accumulated assistant parts, else the final result.
json_response(parts, final_result) ==
    IF parts # <<>> THEN join_with(parts, <<>>) ELSE final_result

\* router.py:498-538: the fallbacks after the loop and the final cleanup.
router_finish(lines, parts, final_result) ==
    LET found == json_response(parts, final_result)
        scrubbed == IF found = <<>> THEN text_scrub(lines) ELSE found
        summarised == IF scrubbed = <<>> THEN output_summary(lines) ELSE scrubbed
    IN Returned(clean_response_content(summarised))

\* router.py:464-488: the loop over the lines.  Only json.JSONDecodeError is
\* caught (487): the .get of a JSON value that is not an object raises
\* AttributeError, which leaves the function.
RECURSIVE router_scan(_, _, _, _)
router_scan(lines, i, parts, final_result) ==
    IF i > Len(lines) THEN router_finish(lines, parts, final_result)
    ELSE IF strip(raw_line(lines[i])) = <<>>
    THEN router_scan(lines, i + 1, parts, final_result)
    ELSE IF json_loads(lines[i]) = "JSONDecodeError"
    THEN router_scan(lines, i + 1, parts, final_result)
    ELSE IF json_loads(lines[i]) = "value" THEN Raised
    ELSE IF lines[i].kind = "assistant" /\ lines[i].text # <<>>
    THEN router_scan(lines, i + 1, Append(parts, lines[i].text), final_result)
    ELSE IF lines[i].kind = "result" /\ lines[i].text # <<>>
    THEN router_scan(lines, i + 1, parts, lines[i].text)
    ELSE router_scan(lines, i + 1, parts, final_result)

\* router.py:454-538 MessageRouter._extract_claude_response.
router_extract_claude_response(lines) ==
    IF is_blank_output(lines) THEN Returned(NoResponseSentinel)
    ELSE router_scan(lines, 1, <<>>, <<>>)

\* telegram_bot.py:232-270: the fallbacks after the loop (no cleanup pass).
bot_finish(lines, assistant_response) ==
    LET scrubbed == IF assistant_response = <<>> THEN text_scrub(lines)
                    ELSE assistant_response
        summarised == IF scrubbed = <<>> THEN output_summary(lines) ELSE scrubbed
    IN Returned(summarised)

\* telegram_bot.py:201-230: the loop over the lines.  The first assistant
\* text ends the loop (216-220); a result is kept only while nothing was found
\* (226-227); AttributeError is not caught here either.
RECURSIVE bot_scan(_, _, _)
bot_scan(lines, i, assistant_response) ==
    IF i > Len(lines) THEN bot_finish(lines, assistant_response)
    ELSE IF strip(raw_line(lines[i])) = <<>>
    THEN bot_scan(lines, i + 1, assistant_response)
    ELSE IF json_loads(lines[i]) = "JSONDecodeError"
    THEN bot_scan(lines, i + 1, assistant_response)
    ELSE IF json_loads(lines[i]) = "value" THEN Raised
    ELSE IF lines[i].kind = "assistant" /\ lines[i].text # <<>>
    THEN bot_finish(lines, lines[i].text)
    ELSE IF lines[i].kind = "result" /\ lines[i].text # <<>>
                /\ assistant_response = <<>>
    THEN bot_scan(lines, i + 1, lines[i].text)
    ELSE bot_scan(lines, i + 1, assistant_response)

\* telegram_bot.py:192-270 TelegramBot._extract_claude_response.
bot_extract_claude_response(lines) ==
    IF is_blank_output(lines) THEN Returned(NoResponseSentinel)
    ELSE bot_scan(lines, 1, <<>>)

\* The backend command ends with some output.
CaptureOutput ==
    /\ x_pc = "idle"
    /\ \E lines \in Outputs : x_out' = lines
    /\ x_pc' = "captured"
    /\ UNCHANGED <<x_router, x_bot, nonExtractVars>>

\* router.py:261, 327: the router extracts the response from the output.
RouterExtract ==
    /\ x_pc = "captured"
    /\ ~x_router.done
    /\ x_router' = router_extract_claude_response(x_out)
    /\ UNCHANGED <<x_pc, x_out, x_bot, nonExtractVars>>

\* telegram_bot.py:161: the bot extracts the response from the output.
BotExtract ==
    /\ x_pc = "captured"
    /\ ~x_bot.done
    /\ x_bot' = bot_extract_claude_response(x_out)
    /\ UNCHANGED <<x_pc, x_out, x_router, nonExtractVars>>

ExtractInit ==
    /\ x_pc = "idle"
    /\ x_out = <<>>
    /\ x_router = NotExtracted
    /\ x_bot = NotExtracted

ExtractNext == CaptureOutput \/ RouterExtract \/ BotExtract

(***************************************************************************)
(* DiscordAdapter.listen over several allowed channels (discord.py:213-247).*)
(* Message ids are snowflakes: they grow with the time of posting, over all *)
(* channels.  Every message mentions the bot and comes from an authorized   *)
(* user.  Fewer ids are posted than the dedup store holds, so none is       *)
(* evicted here.                                                            *)
(***************************************************************************)
Channels == 1..NumChannels

ChanMsgIds == 1..MaxChanMsgs

\* The ids posted so far in channel c.
posted_in(c) == {m \in ChanMsgIds : ch_posted[m] = c}

\* discord.py:366-380 get_channel_messages(channel_id, limit, after): the
\* channel's messages after the cursor, or its latest ones without a cursor.
channel_messages(c, after) ==
    IF after = 0 THEN Newest(posted_in(c), FetchLimit)
    ELSE Oldest({m \in posted_in(c) : m > after}, FetchLimit)

\* A user posts the next message in one of the allowed channels.
ChanPost ==
    /\ \E m \in ChanMsgIds :
          /\ ch_posted[m] = 0
          /\ \A k \in ChanMsgIds : k < m => ch_posted[k] # 0
          /\ \E c \in Channels : ch_posted' = [ch_posted EXCEPT ![m] = c]
    /\ UNCHANGED <<ch_cursor, ch_at, ch_store, ch_routed>>
    /\ UNCHANGED nonChanVars

\* discord.py:223-244, one round of the for loop: the channel is fetched after
\* the loop's one cursor; every message fetched moves the cursor to its id
\* (235, 242), and is marked and handed to process_discord_message unless the
\* store holds it (233-241).  After the last channel the loop sleeps (247) and
\* starts over.
ChanFetch ==
    /\ ch_store' = ch_store \cup channel_messages(ch_at, ch_cursor)
    /\ ch_routed' = [m \in ChanMsgIds |->
                       IF m \in channel_messages(ch_at, ch_cursor) \ ch_store
                       THEN ch_routed[m] + 1 ELSE ch_routed[m]]
    /\ ch_cursor' = IF channel_messages(ch_at, ch_cursor) = {} THEN ch_cursor
                    ELSE SetMax(channel_messages(ch_at, ch_cursor))
    /\ ch_at' = IF ch_at = NumChannels THEN 1 ELSE ch_at + 1
    /\ UNCHANGED ch_posted
    /\ UNCHANGED nonChanVars

\* discord.py:218: listen starts without a cursor.
ChanInit ==
    /\ ch_posted = [m \in ChanMsgIds |-> 0]
    /\ ch_cursor = 0
    /\ ch_at = 1
    /\ ch_store = {}
    /\ ch_routed = [m \in ChanMsgIds |-> 0]

ChanNext == ChanPost \/ ChanFetch

DedupInit ==
    /\ processed_messages = {}
    /\ processed_file = {}
    /\ last_message_id = 0
    /\ posted = 0
    /\ batch = <<>>
    /\ listen_pc = "poll"
    /\ cur_msg = 0
    /\ insertedAt = [m \in MsgIds |-> 0]
    /\ markClock = 0
    /\ routeCount = [m \in MsgIds |-> 0]
    /\ evictCount = [m \in MsgIds |-> 0]
    /\ skipCount = [m \in MsgIds |-> 0]
    /\ lastEvicted = {}
    /\ crashes = 0
    /\ loop_event = "ok"
    /\ in_flight = 0

DedupNext ==
    \/ PostMessage
    \/ Poll
    \/ SkipProcessed
    \/ StartProcessing
    \/ FinishProcessing
    \/ PollFails
    \/ ProcessingFails
    \/ LoopError
    \/ Wake
    \/ CrashRestart

Init ==
    /\ DedupInit /\ CircuitInit /\ StreamInit /\ RunInit /\ RouteInit
    /\ SplitInit /\ ExtractInit /\ ChanInit

Next ==
    \/ DedupNext
    \/ Interrupt
    \/ CircuitNext
    \/ StreamNext
    \/ RunNext
    \/ RouteNext
    \/ SplitNext
    \/ ExtractNext
    \/ ChanNext

Spec == Init /\ [][Next]_vars

\* The polling loop and its dedup store alone.
DedupSpec == Init /\ [][DedupNext]_vars

\* One turn of the polling loop. Every await of the loop returns: the fetch is
\* bounded by the request timeout (discord.py:293), asyncio.sleep by its delay,
\* and process_discord_message ends by returning or by raising.
ListenStep ==
    \/ Poll
    \/ PollFails
    \/ SkipProcessed
    \/ StartProcessing
    \/ FinishProcessing
    \/ ProcessingFails
    \/ LoopError
    \/ Wake

\* The operator starts the adapter again, once, after having stopped it.
OperatorRestart ==
    /\ listen_pc = "stopped"
    /\ crashes = 0
    /\ CrashRestart

\* The polling loop with the channel and the operator.
ListenNext ==
    \/ PostMessage
    \/ ListenStep
    \/ Interrupt
    \/ OperatorRestart

\* The polling loop, scheduled whenever it can take a step.
ListenFairSpec == Init /\ [][ListenNext]_vars /\ WF_vars(ListenStep)

\* The Discord transport alone.
CircuitSpec == Init /\ [][CircuitNext]_vars

\* One inbound request alone.
StreamSpec == Init /\ [][StreamNext]_vars

\* A step of the router or of the adapter that needs nothing from the streamed
\* subprocess: sending the placeholder, finalizing, the batch path (bounded by
\* its timeout, router.py:306) and the clock.  Reading a line (router.py:385)
\* and seeing the output end (router.py:386-387) wait for the subprocess.
StreamOwnStep ==
    \/ \E ok \in BOOLEAN : \E out \in Texts : StartStreaming(ok, out)
    \/ \E ok \in EditOutcomes(s_cfg.platform) : Finalize(ok)
    \/ \E out \in Texts : \E ok \in BOOLEAN : BatchProcess(out, ok)
    \/ StreamTick

\* One inbound request, the program taking every step it can take by itself; the
\* streamed subprocess writes and exits only if it chooses to.
StreamFairSpec == Init /\ [][StreamNext]_vars /\ WF_vars(StreamOwnStep)

\* One batch command alone.
RunSpec == Init /\ [][RunNext]_vars

\* split_message alone.
SplitSpec == Init /\ [][SplitNext]_vars

\* The router's resolution, execution and target expansion alone.
RouteSpec == Init /\ [][RouteNext]_vars

\* Response extraction alone.
ExtractSpec == Init /\ [][ExtractNext]_vars

\* The listen loop over several channels; it keeps polling (discord.py:220
\* `while True`, the sleep at 247 ends).
ChanFairSpec == Init /\ [][ChanNext]_vars /\ WF_vars(ChanFetch)

\* An attempt of caller c in flight ends: aiohttp's ClientTimeout(total=60)
\* (discord.py:293) bounds every request, and the backoff sleep before the next
\* attempt is bounded by max_delay (discord.py:350-354).
AttemptReturns(c) ==
    \/ AttemptSucceeds(c)
    \/ AttemptClientError(c)
    \/ AttemptNetworkFailure(c)
    \/ AttemptOtherError(c)

\* The Discord transport, every request in flight being answered or timed out
\* (discord.py:150, 293).
CircuitFairSpec ==
    /\ Init /\ [][CircuitNext]_vars
    /\ \A c \in Callers : WF_vars(AttemptReturns(c))
    /\ \A c \in Callers : WF_vars(\E ok \in BOOLEAN : ProbeReturns(c, ok))

\* The network has recovered: from now on every request is answered 200.
NetworkUp == now >= StartTime + OutageTicks

\* Caller c begins a call of _make_request_with_retry (discord.py:277-289).
BeginCall(c) ==
    \E start \in BOOLEAN : BeginRequest(c, start) \/ BeginRejectedByCircuit(c, start)

\* The attempt of caller c in flight is answered; not with a failure once the
\* network has recovered.
AttemptAnswered(c) ==
    \/ AttemptSucceeds(c)
    \/ ~NetworkUp /\ AttemptClientError(c)
    \/ ~NetworkUp /\ AttemptNetworkFailure(c)
    \/ ~NetworkUp /\ AttemptOtherError(c)

\* The probe of caller c in flight is answered; with 200 once the network has
\* recovered.
ProbeAnswered(c) ==
    \/ ProbeReturns(c, TRUE)
    \/ ~NetworkUp /\ ProbeReturns(c, FALSE)

RecoverNext ==
    \/ \E c \in Callers : BeginCall(c)
    \/ \E c \in Callers : ProbeAnswered(c)
    \/ \E c \in Callers : AttemptAnswered(c)
    \/ Tick

\* The Discord transport on a network that fails for a while and then answers
\* every request: time passes, every caller keeps making calls (the listen loop
\* polls for ever, discord.py:220-247), every request in flight is answered.
RecoverFairSpec ==
    /\ Init /\ [][RecoverNext]_vars
    /\ WF_vars(Tick)
    /\ \A c \in Callers : WF_vars(BeginCall(c))
    /\ \A c \in Callers : WF_vars(AttemptAnswered(c))
    /\ \A c \in Callers : WF_vars(ProbeAnswered(c))

(***************************************************************************)
(* Claims about one inbound request, checked under StreamSpec.             *)
(***************************************************************************)
\* C1: once a request for a streaming-capable (.ps1 shell) handler has been
\* handled, its originating conversation being a target and no call to the
\* platform having been refused by the transport, the conversation holds exactly
\* one final response: the live message shows the final text or one batch
\* message was delivered, never both and never neither.
C1_ExactlyOneFinalResponse ==
    (/\ s_pc = "done"
     /\ s_cfg.kind = "ps1"
     /\ s_cfg.origin_target
     /\ ~hist.transportFailed)
        => /\ hist.batchSends <= 1
           /\ (live = result) # (hist.batchSends = 1)

\* C2: finalize issues exactly one edit of the live message when the final text
\* differs from last_content, whatever the time since the last accepted edit and
\* whatever the length of the final text, and none when they are equal; no edit
\* is issued after finalization.
C2_FinalizeEditsIffDifferent ==
    hist.finCalled =>
        /\ hist.finEdits = (IF hist.finNeeded THEN 1 ELSE 0)
        /\ hist.edits = hist.editsAtFinalize

\* C3: when start_streaming_response fails, or the final edit of the live message
\* fails, the request is handled again in batch mode, so the final text is still
\* sent to the originating conversation.
C3_FailureFallsBackToBatch ==
    (s_pc = "done" /\ s_cfg.origin_target
        /\ (hist.startFailed \/ hist.finalEditFailed))
        => hist.batchRuns >= 1

C5_PersistedWhileProcessing == listen_pc = "processing" => cur_msg \in processed_file

\* C6: eviction is FIFO by insertion: no evicted id was inserted later than an id
\* that was kept.
C6_EvictsOldestFirst ==
    \A b \in lastEvicted : \A a \in processed_messages : insertedAt[b] < insertedAt[a]

\* C7: after every mark_message_processed call the store holds at most
\* MaxProcessed ids, in memory and in the file.
C7_StoreCapped ==
    /\ Cardinality(processed_messages) <= MaxProcessed
    /\ Cardinality(processed_file) <= MaxProcessed

\* C7 witness: a mark took the store over the cap and the save trimmed it.
C7_Witness ==
    /\ lastEvicted # {}
    /\ Cardinality(processed_messages) = MaxProcessed
    /\ Cardinality(processed_file) = MaxProcessed

(***************************************************************************)
(* Claims about the Discord transport, checked under CircuitSpec.          *)
(***************************************************************************)
\* C8 (as stated, second half): the first call made once circuitTimeout has
\* elapsed closes the circuit and is allowed to proceed, so it never ends
\* rejected.
C8_AutoClosingCallProceeds ==
    \A c \in Callers : req[c].auto => req[c].result # "blocked_unhealthy"

\* C8 (amended): the failure that brings consecutiveFailures to
\* severeFailureThreshold opens the circuit; a call begun while the circuit is
\* open and less than circuitTimeout has elapsed is rejected at once with no
\* network call; a call begun once circuitTimeout has elapsed closes the circuit,
\* and goes on to its attempts only when the proxy health check says healthy
\* (it first waits for a probe when one is due).
C8_OpenCircuitRejectsUntilTimeout ==
    [][ /\ (proxy_consecutive_failures' = proxy_consecutive_failures + 1
            /\ proxy_consecutive_failures' >= severe_failure_threshold)
           => (circuit_breaker_open' /\ circuit_breaker_open_time' = now)
        /\ \A c \in Callers :
             (req[c].pc = "idle" /\ circuit_breaker_open) =>
                /\ (now - circuit_breaker_open_time < circuit_breaker_timeout)
                     => /\ req'[c].pc = "idle"
                        /\ (req'[c] # req[c] =>
                               /\ req'[c].result = "blocked_circuit"
                               /\ circuit_breaker_open'
                               /\ proxy_consecutive_failures' = proxy_consecutive_failures)
                /\ (now - circuit_breaker_open_time >= circuit_breaker_timeout
                    /\ req'[c] # req[c])
                     => /\ ~circuit_breaker_open'
                        /\ req'[c].result # "blocked_circuit"
                        /\ (req'[c].pc = "attempt" => proxy_healthy)
                        /\ (req'[c].pc = "idle" => ~proxy_healthy)
      ]_vars

\* C8 witness: one call was rejected by the open circuit, and a later call, made
\* after the timeout, closed the circuit and is sending its first attempt.
C8_Witness ==
    \E c, d \in Callers :
        /\ req[c].result = "blocked_circuit"
        /\ req[d].auto /\ req[d].pc = "attempt"

\* C9: right after any successful response, of an operation or of a health
\* probe, consecutiveFailures = 0, healthy = true and circuitOpen = false.
C9_SuccessResetsAll ==
    lastEvent \in {"op_ok", "probe_ok"} =>
        /\ proxy_consecutive_failures = 0
        /\ proxy_healthy
        /\ ~circuit_breaker_open

\* A step in which a network attempt (of an operation or of a probe) failed with a
\* network/timeout-class error.
FailedAttemptStep ==
    /\ now' = now
    /\ req' # req
    /\ lastEvent' \in {"op_net_fail", "probe_fail"}

\* C10 (as stated): every failed attempt increments consecutiveFailures by one,
\* in every transport configuration.
C10_EveryFailureCounted ==
    [][FailedAttemptStep =>
          proxy_consecutive_failures' = proxy_consecutive_failures + 1]_vars

\* C10 (amended): with a proxy configured every failed attempt, retried attempts
\* and failed probes included, increments consecutiveFailures by exactly one;
\* without a proxy no failure is counted.
C10_FailureCountedWithProxy ==
    [][FailedAttemptStep =>
          proxy_consecutive_failures' =
              IF proxy_config THEN proxy_consecutive_failures + 1
              ELSE proxy_consecutive_failures]_vars

\* C10 witness: the retried (last) attempt of an operation has just failed behind a
\* proxy and was counted.
C10_Witness ==
    /\ proxy_config
    /\ lastEvent = "op_net_fail"
    /\ proxy_consecutive_failures >= max_retries + 1
    /\ \E c \in Callers : req[c].result = "raised" /\ req[c].attempt = max_retries

\* C11: a failure count at or above max_proxy_failures means the proxy is marked
\* unhealthy; while it is unhealthy supports_streaming is false; the placeholder
\* send of a streaming session is begun only when the proxy is healthy, and a
\* session is started (the send succeeds) only in a healthy state.
C11_UnhealthyDisablesStreaming ==
    /\ [](proxy_consecutive_failures >= max_proxy_failures => ~proxy_healthy)
    /\ [](~proxy_healthy => ~supports_streaming)
    /\ [][\A c \in Callers :
            /\ (req[c].pc = "idle" /\ req'[c] # req[c] /\ req'[c].start)
                  => proxy_healthy
            /\ (req[c].pc = "attempt" /\ req[c].start /\ req'[c].result = "ok")
                  => proxy_healthy']_vars

\* C11 witness: the count reached the threshold, the proxy is unhealthy,
\* supports_streaming is false, and the listen task's latest call, which was not
\* a session start, was refused for health.
C11_Witness ==
    /\ proxy_consecutive_failures >= max_proxy_failures
    /\ ~proxy_healthy
    /\ ~supports_streaming
    /\ req[ListenTask].result = "blocked_unhealthy"
    /\ ~req[ListenTask].start

\* The network attempts made so far by the operation caller c is in, or was last
\* in: one per iteration of the retry loop (discord.py:289).
AttemptsMade(c) == req[c].attempt + 1

\* C12: an operation never makes more than max_retries + 1 network attempts; it
\* gives up on a network-class failure only at its attempt number
\* max_retries + 1; and an operation in flight always ends (its caller is idle
\* again and again).
C12_BoundedAttempts ==
    /\ [](\A c \in Callers : AttemptsMade(c) <= max_retries + 1)
    /\ [][\A c \in Callers :
            (/\ req[c].pc = "attempt" /\ req'[c].pc = "idle"
             /\ lastEvent' = "op_net_fail")
               => (req'[c].result = "raised" /\ AttemptsMade(c) = max_retries + 1)]_vars
    /\ \A c \in Callers : []<>(req[c].pc = "idle")

\* C12 witness: without a proxy, an operation gave up after max_retries + 1
\* failed attempts.
C12_Witness ==
    /\ ~proxy_config
    /\ lastEvent = "op_net_fail"
    /\ \E c \in Callers : req[c].result = "raised" /\ AttemptsMade(c) = max_retries + 1

\* A step in which an attempt of some caller ends in a client-class error
\* response or in a non-network error.
NonRetryableErrorStep ==
    /\ now' = now
    /\ req' # req
    /\ lastEvent' \in {"op_client_error", "op_other_error"}

\* C13 (as stated): an operation whose attempt ends in a client-class error
\* response or in a non-network error has made exactly one network attempt, and
\* the error is surfaced to its caller.
C13_ErrorAfterOneAttempt ==
    [][NonRetryableErrorStep =>
         \A c \in Callers : req'[c] # req[c] =>
            /\ AttemptsMade(c) = 1
            /\ req'[c].pc = "idle"
            /\ req'[c].result \in {"client_error", "raised"}]_vars

\* C13 (amended): the attempt that ends in a client-class error response or in a
\* non-network error is the operation's last: no further attempt follows, the
\* error is surfaced to the caller, and the health state is left as it was.
C13_ErrorNotRetried ==
    [][NonRetryableErrorStep =>
         /\ \A c \in Callers : req'[c] # req[c] =>
               /\ req[c].pc = "attempt"
               /\ req'[c].pc = "idle"
               /\ req'[c].attempt = req[c].attempt
               /\ req'[c].result =
                     (IF lastEvent' = "op_client_error" THEN "client_error" ELSE "raised")
         /\ UNCHANGED <<proxy_healthy, proxy_consecutive_failures,
                        circuit_breaker_open>>]_vars

\* C13 witness: an operation whose first attempt failed on the network got a
\* client-class error response on its retry and returned it.
C13_Witness ==
    /\ lastEvent = "op_client_error"
    /\ \E c \in Callers : req[c].result = "client_error" /\ AttemptsMade(c) = 2

(***************************************************************************)
(* Claims about the streaming session, checked under StreamSpec.           *)
(***************************************************************************)
\* C14: should_update answers true exactly when the time since the last accepted
\* update is at least update_interval, the candidate differs from last_content,
\* and the trimmed candidate is longer than 10 characters.
C14_ShouldUpdateIffAllThree ==
    hist.su.called =>
        (hist.su.answer <=>
            /\ hist.su.elapsed >= update_interval
            /\ hist.su.cand # hist.su.last
            /\ hist.su.cand > MinContentUnits)

\* C14 witness: a candidate of exactly 10 characters, different from
\* last_content and offered after the interval, was rejected.
C14_Witness ==
    /\ hist.su.called
    /\ ~hist.su.answer
    /\ hist.su.elapsed >= update_interval
    /\ hist.su.cand # hist.su.last
    /\ hist.su.cand = MinContentUnits

\* C15: an edit is issued only in a step where should_update accepted the
\* candidate; the context of an active session changes only with a successful
\* edit, which records the candidate and the time; a failed edit leaves the
\* context as it was.
C15_EditOnlyWhenAccepted ==
    [][/\ hist'.edits # hist.edits =>
            /\ hist'.edits = hist.edits + 1
            /\ hist'.evals = hist.evals + 1
            /\ hist'.su.answer
       /\ (ctx.active /\ ctx' # ctx) =>
            /\ hist'.edits = hist.edits + 1
            /\ hist'.editOk
            /\ ctx'.last_content = hist'.su.cand
            /\ ctx'.last_update_time = snow
       /\ (hist'.edits = hist.edits + 1 /\ ~hist'.editOk) => ctx' = ctx]_vars

\* C15 witness: in a session still streaming, an edit failed and a later chunk
\* was edited successfully.
C15_Witness ==
    /\ s_pc = "streaming"
    /\ ctx.active
    /\ hist.transportFailed
    /\ hist.edits >= 2
    /\ hist.editOk
    /\ live = ctx.last_content

\* C16: a built-in command runs no handler command, and once it has been
\* handled, no call to the platform having been refused by the transport, its
\* response has been delivered exactly once to the originating conversation.
C16_BuiltinAnsweredOnce ==
    (s_pc = "done" /\ s_cfg.kind = "builtin" /\ ~hist.transportFailed)
        => /\ hist.cmdRuns = 0
           /\ hist.batchSends = 1

\* C17: a built-in command from an unauthorized sender is never dropped by the
\* adapter: it is passed to on_message, on every platform.
C17_BuiltinExemptFromAuthorization ==
    (s_cfg.kind = "builtin" /\ ~s_cfg.authorized) => s_pc # "dropped"

\* C18: a message that is not a built-in command and comes from an unauthorized
\* sender is dropped: no send, no edit, no command run, no live message.
C18_UnauthorizedDropped ==
    (s_pc # "idle" /\ s_cfg.kind # "builtin" /\ ~s_cfg.authorized) =>
        /\ s_pc = "dropped"
        /\ hist.sends = 0
        /\ hist.edits = 0
        /\ hist.cmdRuns = 0
        /\ live = NoText

\* C18 witness: a .ps1 request on Discord from an unauthorized sender was
\* dropped.
C18_Witness ==
    /\ s_pc = "dropped"
    /\ s_cfg.platform = "discord"
    /\ s_cfg.kind = "ps1"
    /\ ~s_cfg.authorized
    /\ hist.sends = 0

C20_TimeoutKillsCommand ==
    (run_pc = "returned" /\ run_timed_out) =>
        /\ run_response \in {"command_timed_out", "handler_error_timed_out"}
        /\ os_procs = {}

\* C21: a streaming command execution is bounded by the handler's timeout, so a
\* request whose command is being streamed is always eventually completed, even
\* when the subprocess never exits on its own.
C21_StreamingEventuallyCompletes == (s_pc = "streaming") ~> (s_pc = "done")

\* The indexes of the command routes whose prefix the inbound content starts with.
MatchingRoutes ==
    {i \in 1..Len(r_cfg.commands) :
        startswith(r_in.content, r_cfg.commands[i].command)}

\* C22: route resolution takes the first command route, in configured order,
\* whose prefix the content starts with, and that route gives handler and
\* targets; with no matching prefix it takes the sender's user route; with
\* neither it takes the default handler with the full content and the origin as
\* the only target.
C22_FirstPrefixThenUserThenDefault ==
    r_pc = "processed" =>
        IF MatchingRoutes # {}
        THEN LET first == r_cfg.commands[SetMin(MatchingRoutes)]
             IN /\ r_handler.via = "command"
                /\ r_handler.name = first.handler
                /\ r_handler.targets = route_targets(first)
        ELSE IF r_in.user_id = r_cfg.users.user
        THEN /\ r_handler.via = "user"
             /\ r_handler.name = r_cfg.users.handler
             /\ r_handler.targets = route_targets(r_cfg.users)
        ELSE /\ r_handler.via = "default"
             /\ r_handler.name = r_cfg.default
             /\ r_handler.content = r_in.content
             /\ r_handler.targets = <<"origin">>
             /\ r_targets = <<origin_address(r_in.platform, r_in.chat_id)>>

\* Two routes with different handlers both match, and the sender has a user route.
C22_Witness ==
    /\ r_pc = "processed"
    /\ Cardinality(MatchingRoutes) = 2
    /\ r_cfg.commands[1].handler # r_cfg.commands[2].handler
    /\ r_in.user_id = r_cfg.users.user
    /\ r_handler.name = r_cfg.commands[1].handler

\* C23: whenever a command route matches, the content handed to the handler is
\* the inbound content without the matched prefix (and without the surrounding
\* whitespace), also when the content is the prefix alone.
C23_PrefixStripped ==
    (r_pc = "processed" /\ MatchingRoutes # {}) =>
        LET prefix == r_cfg.commands[SetMin(MatchingRoutes)].command
            stripped == strip(SubSeq(r_in.content, Len(prefix) + 1, Len(r_in.content)))
        IN /\ r_handler.content = stripped
           /\ r_exec.ran => r_exec.content = stripped

\* What one configured target stands for.
ExpansionOf(target) ==
    IF target = "origin" THEN <<origin_address(r_in.platform, r_in.chat_id)>>
    ELSE IF target \in AliasNames /\ r_cfg.target_aliases[target].defined
    THEN (IF r_cfg.target_aliases[target].list
          THEN r_cfg.target_aliases[target].items
          ELSE <<r_cfg.target_aliases[target].single>>)
    ELSE <<target>>

\* The configured targets that were expanded.
ExpandedFrom == IF r_pc = "expanded" THEN r_in.targets ELSE r_handler.targets

\* The number of resolved targets the first k configured targets stand for.
RECURSIVE ExpandedLen(_)
ExpandedLen(k) ==
    IF k = 0 THEN 0 ELSE ExpandedLen(k - 1) + Len(ExpansionOf(ExpandedFrom[k]))

C25_UnknownHandlerRunsNothing ==
    (r_pc = "processed" /\ r_handler.via \in {"command", "user"}
        /\ ~r_handler.configured) =>
        /\ ~r_exec.ran
        /\ r_exec.response \notin {"command_output", "none"}

FetchStep ==
    /\ listen_pc = "poll"
    /\ listen_pc' \in {"handle", "sleep"}

C28_ProbeOncePerInterval ==
    [][\A c \in Callers :
          (req[c].pc # "probe" /\ req'[c].pc = "probe") =>
              /\ now - proxy_last_check >= proxy_check_interval
              /\ \A d \in Callers \ {c} :
                    req[d].pc = "probe" =>
                        now - req[d].probe_time >= proxy_check_interval]_vars

\* C29: split_message returns parts of at most max_message_length characters
\* each, and a text within the limit comes back as the one part equal to it.
C29_PartsWithinLimit ==
    sp_pc = "split" =>
        /\ \A i \in 1..Len(sp_parts) : Len(sp_parts[i]) <= max_message_length
        /\ (Len(sp_text) <= max_message_length => sp_parts = <<sp_text>>)

\* A text beyond the limit without a usable split point: the first part is cut
\* at the limit.
C29_Witness ==
    /\ sp_pc = "split"
    /\ Len(sp_text) > max_message_length
    /\ Len(sp_parts) = 2
    /\ Len(sp_parts[1]) = max_message_length
    /\ Len(sp_parts[2]) = Len(sp_text) - max_message_length

RECURSIVE Concat(_)
Concat(parts) == IF parts = <<>> THEN <<>> ELSE Head(parts) \o Concat(Tail(parts))

\* The text without its whitespace characters.
NonWhitespace(str) == SelectSeq(str, LAMBDA ch : ch \notin Whitespace)

\* The text is the parts in order, with nothing but whitespace between two
\* parts and after the last.
RECURSIVE PartsSpell(_, _)
PartsSpell(text, parts) ==
    IF parts = <<>> THEN NonWhitespace(text) = <<>>
    ELSE /\ startswith(text, Head(parts))
         /\ PartsSpell(lstrip(SubSeq(text, Len(Head(parts)) + 1, Len(text))),
                       Tail(parts))

\* C30: for a text beyond the limit, the parts in order spell the text with only
\* whitespace missing, and only between parts: the characters other than
\* whitespace are all there, once each and in their order.
C30_OnlyWhitespaceLostAtCuts ==
    (sp_pc = "split" /\ Len(sp_text) > max_message_length) =>
        /\ NonWhitespace(Concat(sp_parts)) = NonWhitespace(sp_text)
        /\ PartsSpell(sp_text, sp_parts)

\* A text cut after ". ", the blank being dropped and the period kept.
C30_Witness ==
    /\ sp_pc = "split"
    /\ Len(sp_text) > max_message_length
    /\ Len(sp_parts) = 2
    /\ Len(Concat(sp_parts)) < Len(sp_text)
    /\ sp_parts[1][Len(sp_parts[1])] = "."
    /\ NonWhitespace(sp_text) # <<>>

\* The text payloads of the assistant events of an output, concatenated in
\* event order.
RECURSIVE AssistantTexts(_)
AssistantTexts(lines) ==
    IF lines = <<>> THEN <<>>
    ELSE (IF Head(lines).kind = "assistant" THEN Head(lines).text ELSE <<>>)
            \o AssistantTexts(Tail(lines))

\* C31: when the output holds assistant text, the router's extraction returns
\* the concatenation of the assistant payloads in event order (as such, or after
\* the final cleanup pass), whether or not a final result is present.
C31_AccumulationBeforeResult ==
    (x_router.done /\ AssistantTexts(x_out) # <<>>) =>
        /\ ~x_router.raised
        /\ x_router.text \in {AssistantTexts(x_out),
                              clean_response_content(AssistantTexts(x_out))}

\* The first non-empty payload among the events of one kind, <<>> without one.
RECURSIVE FirstPayload(_, _)
FirstPayload(lines, kind) ==
    IF lines = <<>> THEN <<>>
    ELSE IF Head(lines).kind = kind /\ Head(lines).text # <<>> THEN Head(lines).text
    ELSE FirstPayload(Tail(lines), kind)

\* C32: TelegramBot's extraction returns the assistant text when the output
\* holds one, even beside a success result; the result payload when there is no
\* assistant text; and, with neither, the lines left after the banner lines are
\* dropped.
C32_BotPriorityOrder ==
    (x_bot.done /\ ~is_blank_output(x_out)) =>
        /\ FirstPayload(x_out, "assistant") # <<>> =>
              x_bot = Returned(FirstPayload(x_out, "assistant"))
        /\ (FirstPayload(x_out, "assistant") = <<>>
                /\ FirstPayload(x_out, "result") # <<>>) =>
              x_bot = Returned(FirstPayload(x_out, "result"))
        /\ (FirstPayload(x_out, "assistant") = <<>>
                /\ FirstPayload(x_out, "result") = <<>>
                /\ text_scrub(x_out) # <<>>) =>
              x_bot = Returned(text_scrub(x_out))

\* Caller c puts an attempt on the network in this step: the first attempt of a
\* call, or the retry that follows a failed attempt.
AttemptSent(c) ==
    /\ req'[c].pc = "attempt"
    /\ req[c].pc # "attempt" \/ req'[c].attempt > req[c].attempt

\* C33: while the circuit is open no attempt is put on the network, the
\* remaining retries of the operation whose failure opened it included.
C33_OpenCircuitStopsRetries ==
    [][\A c \in Callers :
          AttemptSent(c) =>
              ~(circuit_breaker_open'
                  /\ now' - circuit_breaker_open_time' < circuit_breaker_timeout)]_vars

\* C34: the backend command runs at most once for one inbound message, whether
\* it is handled by the streaming path, by the batch path, or by both in turn.
C34_CommandRunsAtMostOnce == hist.cmdRuns <= 1

\* C35: when the resolved targets do not hold the originating conversation,
\* that conversation receives nothing for the request: no placeholder, no
\* edit, no message.
C35_OnlyResolvedTargetsReceive ==
    (s_cfg.kind # "none" /\ ~s_cfg.origin_target /\ ~s_cfg.targets_raise) =>
        /\ live = NoText
        /\ hist.shown = 0
        /\ hist.batchSends = 0

\* C36: every message posted in an allowed channel is eventually handed to the
\* router, and never more than once.
C36_EveryChannelMessageRouted ==
    /\ [](\A m \in ChanMsgIds : ch_routed[m] <= 1)
    /\ \A m \in ChanMsgIds : (ch_posted[m] # 0) ~> (ch_routed[m] = 1)

\* C38: right after mark_message_processed(id) the store holds id, also when
\* the insertion took the store over its cap and ids were evicted.
C38_JustMarkedIsHeld ==
    [][\A m \in MsgIds :
          insertedAt'[m] # insertedAt[m] => m \in processed_messages']_vars

\* C37: whenever the circuit is open the transport is marked unhealthy and
\* consecutiveFailures is at least severeFailureThreshold.
C37_OpenMeansUnhealthy ==
    circuit_breaker_open =>
        /\ ~proxy_healthy
        /\ proxy_consecutive_failures >= severe_failure_threshold

\* C39: on a network that answers every request from some time on, with calls
\* that keep being made, an unhealthy or circuit-open transport becomes
\* healthy again with the circuit closed and an operational attempt on the
\* network.
C39_TransportRecovers ==
    (~proxy_healthy \/ circuit_breaker_open)
        ~> (/\ proxy_healthy
            /\ ~circuit_breaker_open
            /\ \E c \in Callers : req[c].pc = "attempt")

\* The network has recovered, and the call that closed the timed-out circuit
\* has its attempt on the network, the proxy counting as healthy again.
C39_Witness ==
    /\ NetworkUp
    /\ proxy_healthy /\ ~circuit_breaker_open
    /\ \E c \in Callers : req[c].auto /\ req[c].pc = "attempt"

\* C40: every message send_long_message hands to the transport, header
\* included, is at most max_message_length long.
C40_SentWithinLimit ==
    sp_pc = "sent" =>
        \A i \in 1..Len(sp_sent) : Len(sp_sent[i]) <= max_message_length
====
